---- MODULE Spec2Model ----
(***************************************************************************)
(* The stack-based call-graph extractor parseJsOrTsFile: one traversal of  *)
(* one file's Babel AST, with the visitor's enter/exit handlers, the name  *)
(* resolvers (getFunctionName, getEnclosingClassName,                      *)
(* getEnclosingObjectName) and the callee-name rule of the CallExpression  *)
(* handler.                                                                *)
(*                                                                         *)
(* The AST is not fixed in advance: the traversal steps choose, at every   *)
(* enter, the node that is entered next (its type and the fields the code  *)
(* reads), so the behaviours of Spec are the depth-first walks of every    *)
(* AST within the bounds.  Names are JavaScript strings, modelled as TLA+  *)
(* strings (\o is string concatenation, ToString the decimal rendering of  *)
(* a number).                                                              *)
(*                                                                         *)
(* Nodes that no handler visits and no predicate of the code tests         *)
(* (BlockStatement, ClassBody, ObjectExpression, ExpressionStatement, ...) *)
(* are left out of the path, with one exception: a function whose parent   *)
(* is a VariableDeclarator or an ObjectProperty in the model has that node *)
(* as its direct parent in the AST, and the node type "Other" stands for   *)
(* any unhandled node that has to be shown in between.                     *)
(*                                                                         *)
(* The files are drawn from bounded families (ScopesFamily, ...): each     *)
(* fixes the node shapes a file may contain and, through Budget, how many  *)
(* nodes it may have, so that every branch of every handler is taken       *)
(* without the product of all shapes.  A step that enters a call or a      *)
(* scope leaves it on top of path with kids = 0: JustEntered describes the *)
(* states in which the last records are the ones of that node.             *)
(*                                                                         *)
(* Several specifications share the variables.  Spec is one call of        *)
(* parseJsOrTsFile on any file of a family.  BatchSpec is handleProceedClick *)
(* of RepoExplorerView: it calls the parser on every selected file, the    *)
(* files being fixed texts, some of which do not parse; the requests to    *)
(* /api/ast-save may fail, and fetch itself may be missing; when the       *)
(* handler succeeds the AnalysisLoadingView runs its timers.  LoadingSpec  *)
(* is the same for one selected file, with timers that keep firing.        *)
(* SinkSpec is the Neo4j graph under the Cypher statements of the sink.    *)
(* ExplorerSpec is the file tree of RepoExplorerView under its checkboxes. *)
(* SlotSpec is one call of the parseJsOrTsFile of jsAstParser.ts, which    *)
(* keeps one enclosing name instead of a stack.  Each leaves the variables *)
(* of the others at their initial values.                                  *)
(***************************************************************************)
EXTENDS Integers, Sequences, FiniteSets, TLC

VARIABLES
  state,                    \* NotCalled, NotStarted, Traversing, Threw, Done
  family,                   \* the bounded family of files this file is drawn from
  path,                     \* the NodePath chain: the nodes entered and not yet exited
  pos,                      \* the largest start offset given to a node so far
  nodeCount,                \* the nodes entered below Program so far
  functionStack,            \* part_001:113
  discoveredNodes,          \* part_001:91
  discoveredRelationships,  \* part_001:106
  entryStack,               \* history: functionStack as it was before the enter of each node of path
  ast,                      \* the AST of the file when it is fixed in advance (a file of a batch)
  fetchThrows,              \* the runtime has no global fetch: calling it throws
  posted,                   \* the requests sent to /api/ast-save so far, in order
  outcomes,                 \* how the first requests of posted were settled: "ok" or "failed"
  phase,                    \* the position of handleProceedClick
  selectedFiles,            \* part_005:233
  fileIndex,                \* the file of selectedFiles the loop of part_005:236 is at
  allParserResults,         \* part_005:234
  parserResults,            \* part_005:132, React state
  error,                    \* part_005:127, React state
  analysisInProgress,       \* part_005:130, React state
  sinkVersion,              \* which createAstNodeInNeo4j the sink runs: MERGE or CREATE
  graphNodes,               \* the nodes of the Neo4j graph
  graphEdges,               \* the relationships of the Neo4j graph
  nextId,                   \* the id Neo4j gives the next node it creates
  history,                  \* history: the writes applied, each with the graph it left
  fsTree,                   \* part_005:125, React state
  analysisComplete,         \* part_005:131, React state
  progress,                 \* part_007:60, React state of AnalysisLoadingView
  doneTimer,                \* whether the timeout of part_007:77 is pending
  currentEnclosingName,     \* jsAstParser.ts:41
  events                    \* history: the nodes entered and exited by the traversal of jsAstParser.ts

\* the locals of one call of parseJsOrTsFile and the traversal's position
traversalVars ==
  <<state, family, path, pos, nodeCount, functionStack, discoveredNodes,
    discoveredRelationships, entryStack, ast>>

\* the network between the parser and the Graph Sink
networkVars == <<fetchThrows, posted, outcomes>>

\* RepoExplorerView
batchVars ==
  <<phase, selectedFiles, fileIndex, allParserResults, parserResults, error,
    analysisInProgress>>

\* the Graph Sink
sinkVars == <<sinkVersion, graphNodes, graphEdges, nextId, history>>

\* the file tree and the views of RepoExplorerView
viewVars == <<fsTree, analysisComplete, progress, doneTimer>>

\* the locals of parseJsOrTsFile in the variant that keeps one enclosing name
slotVars == <<currentEnclosingName, events>>

vars == <<traversalVars, networkVars, batchVars, sinkVars, viewVars, slotVars>>

----------------------------------------------------------------------------
(* Bounds *)

\* nodes below Program in one file
MaxNodes == 3

\* files selected for one analysis
MaxFiles == 2

\* requests to the Graph Sink that fail in one analysis
MaxFailures == 1

\* writes applied to the graph
MaxWrites == 3

----------------------------------------------------------------------------
(* Strings and sequences *)

Last(s) == s[Len(s)]

Front(s) == SubSeq(s, 1, Len(s) - 1)

\* String.prototype.startsWith
StartsWith(s, p) == Len(s) >= Len(p) /\ SubSeq(s, 1, Len(p)) = p

\* String.prototype.endsWith
EndsWith(s, p) == Len(s) >= Len(p) /\ SubSeq(s, Len(s) - Len(p) + 1, Len(s)) = p

----------------------------------------------------------------------------
(* AST nodes: the fields the code reads *)

\* an expression or binding the code tests with t.isIdentifier
Ident(n) == [kind |-> "Identifier", name |-> n]

Null == [kind |-> "null", name |-> ""]

Expr(k) == [kind |-> k, name |-> ""]

\* a method or property key
KeyIdent(n) == [kind |-> "Identifier", name |-> n, str |-> "", num |-> 0]

KeyString(s) == [kind |-> "StringLiteral", name |-> "", str |-> s, num |-> 0]

KeyNumeric(k) == [kind |-> "NumericLiteral", name |-> "", str |-> "", num |-> k]

KeyPrivate(n) == [kind |-> "PrivateName", name |-> n, str |-> "", num |-> 0]

KeyOther == [kind |-> "TemplateLiteral", name |-> "", str |-> "", num |-> 0]

NoKey == [kind |-> "null", name |-> "", str |-> "", num |-> 0]

\* the callee of a call expression
CalleeIdent(n) ==
  [kind |-> "Identifier", name |-> n, object |-> Null, property |-> Null,
   computed |-> FALSE]

CalleeMember(obj, prop, comp) ==
  [kind |-> "MemberExpression", name |-> "", object |-> obj, property |-> prop,
   computed |-> comp]

CalleeOther(k) ==
  [kind |-> k, name |-> "", object |-> Null, property |-> Null, computed |-> FALSE]

NoCallee == CalleeOther("null")

Node(type, id, key, callee, init) ==
  [type |-> type, id |-> id, key |-> key, callee |-> callee, init |-> init,
   start |-> 0, kids |-> 0]

ProgramNode == Node("Program", Null, NoKey, NoCallee, "null")

FunctionDeclarationNode(id) == Node("FunctionDeclaration", id, NoKey, NoCallee, "null")

ClassDeclarationNode(id) == Node("ClassDeclaration", id, NoKey, NoCallee, "null")

ClassExpressionNode(id) == Node("ClassExpression", id, NoKey, NoCallee, "null")

ClassMethodNode(key) == Node("ClassMethod", Null, key, NoCallee, "null")

ClassPrivateMethodNode(key) == Node("ClassPrivateMethod", Null, key, NoCallee, "null")

ObjectMethodNode(key) == Node("ObjectMethod", Null, key, NoCallee, "null")

FunctionExpressionNode == Node("FunctionExpression", Null, NoKey, NoCallee, "null")

ArrowFunctionExpressionNode == Node("ArrowFunctionExpression", Null, NoKey, NoCallee, "null")

VariableDeclaratorNode(id, init) == Node("VariableDeclarator", id, NoKey, NoCallee, init)

ObjectPropertyNode(key) == Node("ObjectProperty", Null, key, NoCallee, "null")

CallExpressionNode(callee) == Node("CallExpression", Null, NoKey, callee, "null")

OtherNode == Node("Other", Null, NoKey, NoCallee, "null")

----------------------------------------------------------------------------
(* The name resolvers.  p is the NodePath chain ending in the node itself. *)

\* mutant of Placeholder: the start offset is not read
Placeholder_NoOffset(node) == "anonymous_" \o ToString(0)

\* `anonymous_${path.node.start ?? 0}`: the parser gives every node a start
Placeholder(node) == "anonymous_" \o ToString(node.start)

ClassPlaceholder(node) == "anonymousClass_" \o ToString(node.start)

\* mutant of getFunctionName: the declarator's identifier is not looked at
getFunctionName_NoDeclarator(p) ==
  LET node == Last(p)
  IN  IF node.type = "FunctionDeclaration" /\ node.id.kind # "null"
      THEN node.id.name
      ELSE Placeholder(node)

getFunctionName(p) ==
  LET node == Last(p)
  IN  IF node.type = "FunctionDeclaration" /\ node.id.kind # "null"
      THEN node.id.name
      ELSE IF /\ node.type \in {"ArrowFunctionExpression", "FunctionExpression"}
              /\ Len(p) > 1
              /\ p[Len(p) - 1].type = "VariableDeclarator"
              /\ p[Len(p) - 1].id.kind = "Identifier"
      THEN p[Len(p) - 1].id.name
      ELSE Placeholder(node)

IsNamedClass(n) ==
  \/ n.type = "ClassDeclaration" /\ n.id.kind # "null"
  \/ n.type = "ClassExpression" /\ n.id.kind = "Identifier"

RECURSIVE ClimbClass(_, _)
\* the loop of getEnclosingClassName, current = p[i]
ClimbClass(p, i) ==
  IF i < 1 THEN "anonymousClass"
  ELSE IF IsNamedClass(p[i]) THEN p[i].id.name
  ELSE ClimbClass(p, i - 1)

RECURSIVE ClimbClassFromRoot(_, _)
ClimbClassFromRoot(p, i) ==
  IF i >= Len(p) THEN "anonymousClass"
  ELSE IF IsNamedClass(p[i]) THEN p[i].id.name
  ELSE ClimbClassFromRoot(p, i + 1)

\* mutant of getEnclosingClassName: the outermost named class, not the nearest
getEnclosingClassName_Outermost(p) == ClimbClassFromRoot(p, 1)

getEnclosingClassName(p) == ClimbClass(p, Len(p) - 1)

IsNamedDeclarator(n) == n.type = "VariableDeclarator" /\ n.id.kind = "Identifier"

RECURSIVE ClimbObject(_, _)
\* the loop of getEnclosingObjectName, current = p[i]
ClimbObject(p, i) ==
  IF i < 1 THEN "anonymousObject"
  ELSE IF IsNamedDeclarator(p[i]) THEN p[i].id.name
  ELSE ClimbObject(p, i - 1)

getEnclosingObjectName(p) == ClimbObject(p, Len(p) - 1)

\* String(path.node.key.value) and the identifier's name; dflt when the key is neither
MethodName(key, dflt) ==
  IF key.kind = "Identifier" THEN key.name
  ELSE IF key.kind = "StringLiteral" THEN key.str
  ELSE IF key.kind = "NumericLiteral" THEN ToString(key.num)
  ELSE dflt

ClassName(node) ==
  IF node.id.kind # "null" THEN node.id.name ELSE ClassPlaceholder(node)

\* mutant of ClassMethodName: the class part is left out
ClassMethodName_KeyOnly(p) == MethodName(Last(p).key, "unknownMethod")

ClassMethodName(p) ==
  getEnclosingClassName(p) \o "." \o MethodName(Last(p).key, "unknownMethod")

\* path.node.key.id?.name ?? "privateMethod"
PrivateKey(key) == IF key.name # "" THEN key.name ELSE "privateMethod"

ClassPrivateMethodName(p) ==
  getEnclosingClassName(p) \o ".#" \o PrivateKey(Last(p).key)

ObjectMethodName(p) ==
  getEnclosingObjectName(p) \o "." \o MethodName(Last(p).key, "unknownObjMethod")

\* t.isObjectProperty(path.parent) && t.isIdentifier(path.parent.key)
IsPropertyValue(p) ==
  /\ Len(p) > 1
  /\ p[Len(p) - 1].type = "ObjectProperty"
  /\ p[Len(p) - 1].key.kind = "Identifier"

\* the name a FunctionExpression or ArrowFunctionExpression pushes
FunctionValueName(p) ==
  IF IsPropertyValue(p)
  THEN getEnclosingObjectName(p) \o "." \o p[Len(p) - 1].key.name
  ELSE getFunctionName(p)

\* mutant of FunctionValueType: always the syntactic kind
FunctionValueType_Syntactic(p, own) == own

\* the entity kind it is recorded with; own is FunctionExpression or ArrowFunction
FunctionValueType(p, own) ==
  IF IsPropertyValue(p) THEN own
  ELSE IF StartsWith(getFunctionName(p), "anonymous_") THEN "AnonymousFunction"
  ELSE own

\* mutant of CalleeName: the object part of a member callee is dropped
CalleeName_PropertyOnly(callee) ==
  IF callee.kind = "Identifier" THEN callee.name
  ELSE IF callee.kind = "MemberExpression"
  THEN (IF callee.property.kind = "Identifier" THEN callee.property.name
        ELSE "unknownProp")
  ELSE "anonymous_call"

\* the calleeName of the CallExpression handler
CalleeName(callee) ==
  IF callee.kind = "Identifier" THEN callee.name
  ELSE IF callee.kind = "MemberExpression"
  THEN (IF callee.object.kind = "Identifier" THEN callee.object.name ELSE "unknownObj")
       \o "." \o
       (IF callee.property.kind = "Identifier" THEN callee.property.name
        ELSE "unknownProp")
  ELSE "anonymous_call"

----------------------------------------------------------------------------
(* The files: bounded families of ASTs *)

ScopeTypes ==
  {"Program", "FunctionDeclaration", "ClassDeclaration", "ClassExpression",
   "ClassMethod", "ClassPrivateMethod", "ObjectMethod", "FunctionExpression",
   "ArrowFunctionExpression"}

FunctionLike ==
  {"FunctionDeclaration", "ClassMethod", "ClassPrivateMethod", "ObjectMethod",
   "FunctionExpression", "ArrowFunctionExpression"}

ClassTypes == {"ClassDeclaration", "ClassExpression"}

\* statements: only where a statement list is (Program, a function body, a block)
StatementTypes == {"FunctionDeclaration", "ClassDeclaration", "VariableDeclarator"}

MemberTypes == {"ClassMethod", "ClassPrivateMethod"}

\* the callee kinds that are nodes the traversal visits as the call's first child
VisitedCallees == {"FunctionExpression", "ArrowFunctionExpression", "CallExpression"}

MemberCallees ==
  { CalleeMember(o, pr[1], pr[2]) :
      o \in {Ident("o"), Expr("ThisExpression")},
      pr \in { <<Ident("p"), FALSE>>, <<Expr("PrivateName"), FALSE>>,
               <<Ident("k"), TRUE>>, <<Expr("StringLiteral"), TRUE>> } }

Families ==
  {"scopes", "callees", "names", "classes", "objects", "nesting", "emptykeys", "iife",
   "prefixed"}

\* every scope-introducing type, calls and the unhandled nodes
ScopesFamily ==
  { FunctionDeclarationNode(Ident("f")), ClassDeclarationNode(Ident("A")),
    ClassExpressionNode(Ident("B")), ClassMethodNode(KeyIdent("m")),
    ClassPrivateMethodNode(KeyPrivate("p")), ObjectMethodNode(KeyIdent("m")),
    FunctionExpressionNode, ArrowFunctionExpressionNode,
    VariableDeclaratorNode(Ident("v"), "FunctionExpression"),
    VariableDeclaratorNode(Ident("v"), "Other"),
    ObjectPropertyNode(KeyIdent("k")),
    CallExpressionNode(CalleeIdent("c")), OtherNode }

\* every callee shape
CalleesFamily ==
  { FunctionDeclarationNode(Ident("f")), FunctionExpressionNode,
    ArrowFunctionExpressionNode, CallExpressionNode(CalleeIdent("c")) }
  \cup { CallExpressionNode(c) : c \in MemberCallees }
  \cup { CallExpressionNode(CalleeOther(k)) : k \in VisitedCallees \cup {"Import"} }

\* declarations and function values, with and without an identifier
NamesFamily ==
  { FunctionDeclarationNode(Ident("greet")), FunctionDeclarationNode(Null),
    ClassDeclarationNode(Ident("A")), ClassDeclarationNode(Null),
    ClassExpressionNode(Null), FunctionExpressionNode, ArrowFunctionExpressionNode,
    VariableDeclaratorNode(Ident("v"), "FunctionExpression"),
    VariableDeclaratorNode(Ident("v"), "ArrowFunctionExpression"),
    VariableDeclaratorNode(Ident("v"), "Other"),
    VariableDeclaratorNode(Expr("ObjectPattern"), "FunctionExpression"),
    CallExpressionNode(CalleeMember(Ident("console"), Ident("log"), FALSE)),
    OtherNode }

\* class members with every key shape, classes inside one another
ClassesFamily ==
  { ClassDeclarationNode(Ident("A")), ClassExpressionNode(Ident("B")),
    ClassExpressionNode(Null), ClassPrivateMethodNode(KeyPrivate("secret")),
    VariableDeclaratorNode(Ident("C"), "Other"), ObjectMethodNode(KeyIdent("foo")),
    CallExpressionNode(CalleeIdent("helper")) }
  \cup { ClassMethodNode(k) :
           k \in {KeyIdent("m"), KeyString("s"), KeyNumeric(1), KeyOther} }

\* object members with every key shape
ObjectsFamily ==
  { VariableDeclaratorNode(Ident("obj"), "Other"),
    ObjectPropertyNode(KeyIdent("k")), ObjectPropertyNode(KeyString("s")),
    FunctionExpressionNode, ArrowFunctionExpressionNode,
    CallExpressionNode(CalleeIdent("bar")) }
  \cup { ObjectMethodNode(k) :
           k \in {KeyIdent("foo"), KeyString("s"), KeyNumeric(1), KeyOther} }

\* declarators inside one another
NestingFamily ==
  { VariableDeclaratorNode(Ident("v"), "ArrowFunctionExpression"),
    VariableDeclaratorNode(Ident("w"), "Other"),
    VariableDeclaratorNode(Expr("ObjectPattern"), "Other"),
    ArrowFunctionExpressionNode, ObjectMethodNode(KeyIdent("foo")) }

\* members whose key is the empty string literal, class { ""() {} }, below
\* owners that have no name
EmptyKeysFamily ==
  { ClassExpressionNode(Null), ClassDeclarationNode(Ident("A")),
    ClassMethodNode(KeyString("")), ObjectMethodNode(KeyString("")),
    VariableDeclaratorNode(Expr("ObjectPattern"), "Other"),
    CallExpressionNode(CalleeOther("Import")) }

\* immediately-invoked function expressions, (function () { c(); })(), with
\* named functions around and inside them
IifeFamily ==
  { CallExpressionNode(CalleeOther("FunctionExpression")), FunctionExpressionNode,
    CallExpressionNode(CalleeIdent("doThing")), FunctionDeclarationNode(Ident("f")) }

\* function values named by an identifier that begins with anonymous_
PrefixedFamily ==
  { VariableDeclaratorNode(Ident("anonymous_helper"), "FunctionExpression"),
    VariableDeclaratorNode(Ident("anonymous_helper"), "ArrowFunctionExpression"),
    VariableDeclaratorNode(Ident("o"), "Other"),
    ObjectPropertyNode(KeyIdent("anonymous_key")),
    FunctionExpressionNode, ArrowFunctionExpressionNode }

\* the files of the parser that keeps one enclosing name: declarations with
\* and without a name inside one another, and calls
SlotFamily ==
  { FunctionDeclarationNode(Ident("outer")), FunctionDeclarationNode(Ident("inner")),
    FunctionDeclarationNode(Null), ClassDeclarationNode(Ident("A")),
    VariableDeclaratorNode(Ident("v"), "ArrowFunctionExpression"),
    VariableDeclaratorNode(Expr("ObjectPattern"), "FunctionExpression"),
    VariableDeclaratorNode(Ident("w"), "Other"),
    FunctionExpressionNode, ArrowFunctionExpressionNode,
    CallExpressionNode(CalleeIdent("c")),
    CallExpressionNode(CalleeMember(Ident("console"), Ident("log"), FALSE)),
    CallExpressionNode(CalleeMember(Expr("ThisExpression"), Expr("PrivateName"), FALSE)),
    CallExpressionNode(CalleeOther("Import")) }

\* function-valued declarators and calls inside a named function
NestedSlotFamily ==
  { FunctionDeclarationNode(Ident("outer")),
    VariableDeclaratorNode(Ident("v"), "ArrowFunctionExpression"),
    ArrowFunctionExpressionNode, CallExpressionNode(CalleeIdent("c")) }

Templates(fam) ==
  CASE fam = "scopes" -> ScopesFamily
    [] fam = "callees" -> CalleesFamily
    [] fam = "names" -> NamesFamily
    [] fam = "classes" -> ClassesFamily
    [] fam = "objects" -> ObjectsFamily
    [] fam = "nesting" -> NestingFamily
    [] fam = "emptykeys" -> EmptyKeysFamily
    [] fam = "iife" -> IifeFamily
    [] fam = "prefixed" -> PrefixedFamily
    [] fam = "slot" -> SlotFamily
    [] fam = "nestedslot" -> NestedSlotFamily

\* the nodes below Program a file of the family may have: the families with
\* many node shapes have fewer nodes, the one with few shapes has more
Budget(fam) ==
  CASE fam \in {"nesting", "iife", "nestedslot"} -> MaxNodes + 1
    [] fam = "callees" -> MaxNodes - 1
    [] OTHER -> MaxNodes

\* the child a node must have, as its first one: the callee of a call when the
\* callee is itself visited, the init of a declarator when it is a function
RequiredChild(n) ==
  IF n.type = "CallExpression" /\ n.callee.kind \in VisitedCallees THEN n.callee.kind
  ELSE IF n.type = "VariableDeclarator" /\ n.init # "Other" THEN n.init
  ELSE "null"

\* Babel's grammar, as far as the code can tell: where a node of type c may be entered
ChildOK(parent, c) ==
  /\ c.type \in MemberTypes => parent.type \in ClassTypes
  /\ c.type \in StatementTypes => parent.type \in FunctionLike \cup {"Program", "Other"}
  /\ parent.kids = 0 /\ RequiredChild(parent) # "null" => c.type = RequiredChild(parent)
  /\ parent.type = "VariableDeclarator" /\ parent.init = "Other" =>
       c.type \notin {"FunctionExpression", "ArrowFunctionExpression"}
  /\ parent.type = "ObjectProperty" => parent.kids = 0
  /\ parent.type = "VariableDeclarator" /\ RequiredChild(parent) # "null" => parent.kids = 0

\* a node may start where its parent starts only as the first child of a node that
\* can begin with an expression or a statement; a function, class or method begins
\* with a keyword, a parameter list or a key
Starts(parent) ==
  IF parent.kids = 0 /\ parent.type \in {"Program", "CallExpression", "Other"}
  THEN {pos, pos + 1}
  ELSE {pos + 1}

----------------------------------------------------------------------------
(* The traversal *)

\* any file: the traversal chooses the AST as it goes
AnyAst == [fixed |-> FALSE, nodes |-> <<>>]

\* the locals of parseJsOrTsFile when the traversal starts
FreshLocals ==
  /\ path = <<>>
  /\ pos = 0
  /\ nodeCount = 0
  /\ functionStack = <<>>
  /\ discoveredNodes = <<>>
  /\ discoveredRelationships = <<>>
  /\ entryStack = <<>>

\* RepoExplorerView as it is mounted
ExplorerMounted ==
  /\ phase = "Idle"
  /\ fileIndex = 0
  /\ allParserResults = <<>>
  /\ parserResults = <<>>
  /\ error = ""
  /\ analysisInProgress = FALSE
  /\ analysisComplete = FALSE
  /\ progress = 0
  /\ doneTimer = FALSE

\* no repository has been selected
NoRepository == fsTree = <<>>

\* JavaScript's null
null == "<null>"

\* the variant of parseJsOrTsFile with one enclosing name has not run
SlotUnused ==
  /\ currentEnclosingName = null
  /\ events = <<>>

\* a sink of one of the versions with an empty graph
SinkEmpty ==
  /\ graphNodes = {}
  /\ graphEdges = {}
  /\ nextId = 1
  /\ history = <<>>

\* one call of parseJsOrTsFile on any file of a family, fetch being there
Init ==
  /\ state = "NotStarted"
  /\ family \in Families
  /\ FreshLocals
  /\ ast = AnyAst
  /\ fetchThrows = FALSE
  /\ posted = <<>>
  /\ outcomes = <<>>
  /\ selectedFiles = <<>>
  /\ ExplorerMounted
  /\ NoRepository
  /\ SlotUnused
  /\ sinkVersion = "MERGE"
  /\ SinkEmpty

\* mutant of Pop: the exit handler forgets to pop
Pop_Keep(stack) == stack

\* Array.prototype.pop: no effect on an empty array
Pop(stack) == IF stack = <<>> THEN stack ELSE Front(stack)

\* recordNodeInNeo4j: the entry of discoveredNodes
NodeRecord(entityName, entityType) == [type |-> entityType, name |-> entityName]

\* recordRelationshipInNeo4j: the entry of discoveredRelationships
RelationshipRecord(callerName, calleeName, relationshipType) ==
  [caller |-> callerName, callee |-> calleeName, relationshipType |-> relationshipType]

\* the path of the file parseJsOrTsFile was called with
FilePath == IF phase = "Idle" THEN "file.js" ELSE selectedFiles[fileIndex].path

\* the bodies of the requests to /api/ast-save
NodeRequest(entityName, entityType) ==
  [type |-> "node", filePath |-> FilePath, entityName |-> entityName,
   entityType |-> entityType]

RelationshipRequest(callerName, calleeName, relationshipType) ==
  [type |-> "relationship", callerName |-> callerName, calleeName |-> calleeName,
   relationshipType |-> relationshipType]

\* in a fixed AST the next node is n, a child of the current node, starting at s
IsNextNode(n, s) ==
  ast.fixed =>
    /\ nodeCount < Len(ast.nodes)
    /\ ast.nodes[nodeCount + 1] = [node |-> n, depth |-> Len(path), start |-> s]

\* in a fixed AST the current node has no further child
NoMoreChildren ==
  ast.fixed =>
    IF nodeCount = Len(ast.nodes) THEN TRUE
    ELSE ast.nodes[nodeCount + 1].depth < Len(path)

\* the traversal enters node n, which starts at offset s, below the current node
Visit(n, s) ==
  /\ state = "Traversing"
  /\ path # <<>>
  /\ nodeCount < Budget(family)
  /\ n \in Templates(family)
  /\ ChildOK(Last(path), n)
  /\ s \in Starts(Last(path))
  /\ IsNextNode(n, s)
  /\ path' = Append([path EXCEPT ![Len(path)].kids = @ + 1], [n EXCEPT !.start = s])
  /\ pos' = s
  /\ nodeCount' = nodeCount + 1
  /\ entryStack' = Append(entryStack, functionStack)
  /\ UNCHANGED <<family, ast, fetchThrows, outcomes, batchVars, sinkVars, viewVars>>

Descend(n, s) == Visit(n, s) /\ UNCHANGED slotVars

\* the traversal leaves the current node, whose type is among types
Leave(types) ==
  /\ state = "Traversing"
  /\ path # <<>>
  /\ Last(path).type \in types
  /\ RequiredChild(Last(path)) # "null" => Last(path).kids > 0
  /\ NoMoreChildren
  /\ path' = Front(path)
  /\ entryStack' = Front(entryStack)
  /\ UNCHANGED <<state, family, pos, nodeCount, ast, networkVars, batchVars, sinkVars,
                 viewVars>>

Ascend(types) == Leave(types) /\ UNCHANGED slotVars

\* mutant of Fetch: once a request has failed, nothing more is sent
Fetch_StopsAfterFailure(requests) ==
  IF fetchThrows
  THEN posted' = posted /\ state' = "Threw"
  ELSE /\ posted' = IF \E i \in 1..Len(outcomes) : outcomes[i] = "failed"
                    THEN posted ELSE posted \o requests
       /\ state' = state

\* the fetch calls of one handler: the requests are sent (whether they arrive is
\* known later), or the first call throws and the exception leaves traverse
Fetch(requests) ==
  IF fetchThrows
  THEN posted' = posted /\ state' = "Threw"
  ELSE posted' = posted \o requests /\ state' = state

\* an enter handler: push the name, record the entity
PushAndRecord(name, type) ==
  /\ functionStack' = Append(functionStack, name)
  /\ discoveredNodes' = Append(discoveredNodes, NodeRecord(name, type))
  /\ Fetch(<<NodeRequest(name, type)>>)
  /\ UNCHANGED discoveredRelationships

\* every exit handler
PopOnExit ==
  /\ functionStack' = Pop(functionStack)
  /\ UNCHANGED <<discoveredNodes, discoveredRelationships>>

\* mutant of ProgramEnter: no sentinel is pushed
ProgramEnter_NoSentinel ==
  /\ state = "NotStarted"
  /\ state' = "Traversing"
  /\ path' = <<ProgramNode>>
  /\ entryStack' = <<functionStack>>
  /\ UNCHANGED <<family, pos, nodeCount, functionStack, discoveredNodes,
                 discoveredRelationships, ast, networkVars, batchVars, sinkVars, viewVars, slotVars>>

ProgramEnter ==
  /\ state = "NotStarted"
  /\ state' = "Traversing"
  /\ path' = <<ProgramNode>>
  /\ entryStack' = <<functionStack>>
  /\ functionStack' = Append(functionStack, "GLOBAL")
  /\ UNCHANGED <<family, pos, nodeCount, discoveredNodes, discoveredRelationships,
                 ast, networkVars, batchVars, sinkVars, viewVars, slotVars>>

ProgramExit == Ascend({"Program"}) /\ PopOnExit

ClassDeclarationEnter ==
  \E n \in Templates(family), s \in {pos, pos + 1} :
    /\ n.type = "ClassDeclaration"
    /\ Descend(n, s)
    /\ PushAndRecord(ClassName(Last(path')), "ClassDeclaration")

ClassDeclarationExit == Ascend({"ClassDeclaration"}) /\ PopOnExit

ClassExpressionEnter ==
  \E n \in Templates(family), s \in {pos, pos + 1} :
    /\ n.type = "ClassExpression"
    /\ Descend(n, s)
    /\ PushAndRecord(ClassName(Last(path')), "ClassExpression")

ClassExpressionExit == Ascend({"ClassExpression"}) /\ PopOnExit

ClassMethodEnter ==
  \E n \in Templates(family), s \in {pos, pos + 1} :
    /\ n.type = "ClassMethod"
    /\ Descend(n, s)
    /\ PushAndRecord(ClassMethodName(path'), "ClassMethod")

ClassMethodExit == Ascend({"ClassMethod"}) /\ PopOnExit

ClassPrivateMethodEnter ==
  \E n \in Templates(family), s \in {pos, pos + 1} :
    /\ n.type = "ClassPrivateMethod"
    /\ Descend(n, s)
    /\ PushAndRecord(ClassPrivateMethodName(path'), "ClassPrivateMethod")

ClassPrivateMethodExit == Ascend({"ClassPrivateMethod"}) /\ PopOnExit

ObjectMethodEnter ==
  \E n \in Templates(family), s \in {pos, pos + 1} :
    /\ n.type = "ObjectMethod"
    /\ Descend(n, s)
    /\ PushAndRecord(ObjectMethodName(path'), "ObjectMethod")

ObjectMethodExit == Ascend({"ObjectMethod"}) /\ PopOnExit

FunctionDeclarationEnter ==
  \E n \in Templates(family), s \in {pos, pos + 1} :
    /\ n.type = "FunctionDeclaration"
    /\ Descend(n, s)
    /\ PushAndRecord(getFunctionName(path'), "FunctionDeclaration")

FunctionDeclarationExit == Ascend({"FunctionDeclaration"}) /\ PopOnExit

FunctionExpressionEnter ==
  \E n \in Templates(family), s \in {pos, pos + 1} :
    /\ n.type = "FunctionExpression"
    /\ Descend(n, s)
    /\ PushAndRecord(FunctionValueName(path'),
                     FunctionValueType(path', "FunctionExpression"))

FunctionExpressionExit == Ascend({"FunctionExpression"}) /\ PopOnExit

ArrowFunctionExpressionEnter ==
  \E n \in Templates(family), s \in {pos, pos + 1} :
    /\ n.type = "ArrowFunctionExpression"
    /\ Descend(n, s)
    /\ PushAndRecord(FunctionValueName(path'),
                     FunctionValueType(path', "ArrowFunction"))

ArrowFunctionExpressionExit == Ascend({"ArrowFunctionExpression"}) /\ PopOnExit

\* mutant of RecordCall: the relationship is recorded before the reference
RecordCall_RelationshipFirst(callerName, calleeName) ==
  /\ discoveredNodes' =
       IF fetchThrows THEN discoveredNodes
       ELSE Append(discoveredNodes, NodeRecord(calleeName, "FunctionReference"))
  /\ discoveredRelationships' =
       Append(discoveredRelationships,
              RelationshipRecord(callerName, calleeName, "CALLS"))
  /\ Fetch(<<RelationshipRequest(callerName, calleeName, "CALLS"),
             NodeRequest(calleeName, "FunctionReference")>>)

\* recordNodeInNeo4j, then recordRelationshipInNeo4j: when the fetch of the
\* first throws, the second is not reached
RecordCall(callerName, calleeName) ==
  /\ discoveredNodes' =
       Append(discoveredNodes, NodeRecord(calleeName, "FunctionReference"))
  /\ discoveredRelationships' =
       IF fetchThrows THEN discoveredRelationships
       ELSE Append(discoveredRelationships,
                   RelationshipRecord(callerName, calleeName, "CALLS"))
  /\ Fetch(<<NodeRequest(calleeName, "FunctionReference"),
             RelationshipRequest(callerName, calleeName, "CALLS")>>)

\* mutant of CallExpression: calls are recorded only inside a function or class
CallExpression_InsideScopesOnly ==
  \E n \in Templates(family), s \in {pos, pos + 1} :
    /\ n.type = "CallExpression"
    /\ Descend(n, s)
    /\ UNCHANGED functionStack
    /\ IF Len(functionStack) > 1
       THEN LET callerName == functionStack[Len(functionStack)]
                calleeName == CalleeName(n.callee)
            IN  RecordCall(callerName, calleeName)
       ELSE UNCHANGED <<discoveredNodes, discoveredRelationships, posted, state>>

\* mutant of CallExpression: the caller is read from the bottom of the stack
CallExpression_BottomCaller ==
  \E n \in Templates(family), s \in {pos, pos + 1} :
    /\ n.type = "CallExpression"
    /\ Descend(n, s)
    /\ UNCHANGED functionStack
    /\ IF Len(functionStack) > 0
       THEN LET callerName == functionStack[1]
                calleeName == CalleeName(n.callee)
            IN  RecordCall(callerName, calleeName)
       ELSE UNCHANGED <<discoveredNodes, discoveredRelationships, posted, state>>

\* the CallExpression handler (an enter handler; the node has no exit handler)
CallExpression ==
  \E n \in Templates(family), s \in {pos, pos + 1} :
    /\ n.type = "CallExpression"
    /\ Descend(n, s)
    /\ UNCHANGED functionStack
    /\ IF Len(functionStack) > 0
       THEN LET callerName == functionStack[Len(functionStack)]
                calleeName == CalleeName(n.callee)
            IN  RecordCall(callerName, calleeName)
       ELSE UNCHANGED <<discoveredNodes, discoveredRelationships, posted, state>>

UnhandledTypes == {"VariableDeclarator", "ObjectProperty", "Other"}

\* a node the visitor has no handler for is entered
UnhandledEnter ==
  \E n \in Templates(family), s \in {pos, pos + 1} :
    /\ n.type \in UnhandledTypes
    /\ Descend(n, s)
    /\ UNCHANGED <<functionStack, discoveredNodes, discoveredRelationships, posted,
                   state>>

\* a node with no exit handler is left
UnhandledExit ==
  /\ Ascend(UnhandledTypes \cup {"CallExpression"})
  /\ UNCHANGED <<functionStack, discoveredNodes, discoveredRelationships>>

\* traverse has returned: the result is returned
Return ==
  /\ state = "Traversing"
  /\ path = <<>>
  /\ state' = "Done"
  /\ UNCHANGED <<family, path, pos, nodeCount, functionStack, discoveredNodes,
                 discoveredRelationships, entryStack, ast, networkVars, batchVars, sinkVars, viewVars, slotVars>>

Next ==
  \/ ProgramEnter
  \/ ProgramExit
  \/ ClassDeclarationEnter
  \/ ClassDeclarationExit
  \/ ClassExpressionEnter
  \/ ClassExpressionExit
  \/ ClassMethodEnter
  \/ ClassMethodExit
  \/ ClassPrivateMethodEnter
  \/ ClassPrivateMethodExit
  \/ ObjectMethodEnter
  \/ ObjectMethodExit
  \/ FunctionDeclarationEnter
  \/ FunctionDeclarationExit
  \/ FunctionExpressionEnter
  \/ FunctionExpressionExit
  \/ ArrowFunctionExpressionEnter
  \/ ArrowFunctionExpressionExit
  \/ CallExpression
  \/ UnhandledEnter
  \/ UnhandledExit
  \/ Return

Spec == Init /\ [][Next]_vars

----------------------------------------------------------------------------
(* The batch: handleProceedClick of RepoExplorerView, which calls            *)
(* parseJsOrTsFile on every selected JavaScript or TypeScript file.  The     *)
(* files of a batch are fixed texts; the traversal above walks their ASTs.   *)

Entry(n, d, s) == [node |-> n, depth |-> d, start |-> s]

\* a text that parses, with the nodes of its AST in the order they are entered
SourceText(lang, nodes) ==
  [language |-> lang, parses |-> TRUE, ast |-> [fixed |-> TRUE, nodes |-> nodes]]

\* a text Babel's parse throws a SyntaxError on
InvalidText == [language |-> "javascript", parses |-> FALSE, ast |-> AnyAst]

\* a file detectLanguage knows no language for
StyleSheet == [language |-> "undefined", parses |-> FALSE, ast |-> AnyAst]

\* class A { m() { c(); } }
ClassText ==
  SourceText("typescript",
    << Entry(ClassDeclarationNode(Ident("A")), 1, 1),
       Entry(ClassMethodNode(KeyIdent("m")), 2, 2),
       Entry(CallExpressionNode(CalleeIdent("c")), 3, 3) >>)

\* (class B { #p() {} }); function f() {}
PrivateText ==
  SourceText("typescript",
    << Entry(ClassExpressionNode(Ident("B")), 1, 1),
       Entry(ClassPrivateMethodNode(KeyPrivate("p")), 2, 2),
       Entry(FunctionDeclarationNode(Ident("f")), 1, 3) >>)

\* const v = function () {}; c();
DeclaratorText ==
  SourceText("javascript",
    << Entry(VariableDeclaratorNode(Ident("v"), "FunctionExpression"), 1, 1),
       Entry(FunctionExpressionNode, 2, 2),
       Entry(CallExpressionNode(CalleeIdent("c")), 1, 3) >>)

\* ({ m() {}, k: () => {} })
ObjectText ==
  SourceText("javascript",
    << Entry(ObjectMethodNode(KeyIdent("m")), 1, 1),
       Entry(ObjectPropertyNode(KeyIdent("k")), 1, 2),
       Entry(ArrowFunctionExpressionNode, 2, 3) >>)

Texts == {ClassText, PrivateText, DeclaratorText, ObjectText, InvalidText, StyleSheet}

\* the files of the tree are at different paths
PathOf(i) == "src/file" \o ToString(i)

\* gatherSelectedFiles(fsTree): the checked files, in tree order
Batches ==
  { [i \in DOMAIN texts |-> [path |-> PathOf(i), language |-> texts[i].language,
                             text |-> texts[i]]] :
      texts \in UNION {[1..n -> Texts] : n \in 1..MaxFiles} }

\* the explorer shows a tree with some files checked; no parser call is running
BatchInit ==
  /\ state = "NotCalled"
  /\ family = "scopes"
  /\ FreshLocals
  /\ ast = AnyAst
  /\ fetchThrows \in BOOLEAN
  /\ posted = <<>>
  /\ outcomes = <<>>
  /\ selectedFiles \in Batches
  /\ ExplorerMounted
  /\ NoRepository
  /\ SlotUnused
  /\ sinkVersion = "MERGE"
  /\ SinkEmpty

IsJsOrTs(file) == file.language \in {"javascript", "typescript"}

\* the click on Proceed: the try block is entered, the loop starts
ProceedClick ==
  /\ phase = "Idle"
  /\ phase' = "Loop"
  /\ fileIndex' = 1
  /\ allParserResults' = <<>>
  /\ UNCHANGED <<traversalVars, networkVars, sinkVars, viewVars, slotVars, selectedFiles, parserResults, error,
                 analysisInProgress>>

\* the loop passes over a file that is neither JavaScript nor TypeScript
SkipFile ==
  /\ phase = "Loop"
  /\ fileIndex <= Len(selectedFiles)
  /\ ~IsJsOrTs(selectedFiles[fileIndex])
  /\ fileIndex' = fileIndex + 1
  /\ UNCHANGED <<traversalVars, networkVars, sinkVars, viewVars, slotVars, phase, selectedFiles, allParserResults,
                 parserResults, error, analysisInProgress>>

\* mutant of Catch: the analysis is shown after a failure too
Catch_ShowsAnalysis(message) ==
  /\ phase' = "Caught"
  /\ error' = message
  /\ analysisInProgress' = TRUE
  /\ UNCHANGED <<networkVars, sinkVars, viewVars, slotVars, selectedFiles, fileIndex,
                 allParserResults, parserResults>>

\* the catch block of handleProceedClick
Catch(message) ==
  /\ phase' = "Caught"
  /\ error' = message
  /\ UNCHANGED <<networkVars, sinkVars, viewVars, slotVars, selectedFiles, fileIndex, allParserResults,
                 parserResults, analysisInProgress>>

\* mutant of CallParser: the stack and the result lists are module variables,
\* not made anew by every call
CallParser_SharedLocals ==
  /\ phase = "Loop"
  /\ fileIndex <= Len(selectedFiles)
  /\ IsJsOrTs(selectedFiles[fileIndex])
  /\ path' = <<>>
  /\ pos' = 0
  /\ nodeCount' = 0
  /\ entryStack' = <<>>
  /\ UNCHANGED <<family, functionStack, discoveredNodes, discoveredRelationships>>
  /\ IF selectedFiles[fileIndex].text.parses
     THEN /\ state' = "NotStarted"
          /\ ast' = selectedFiles[fileIndex].text.ast
          /\ phase' = "Parsing"
          /\ UNCHANGED <<networkVars, sinkVars, viewVars, slotVars, selectedFiles, fileIndex,
                         allParserResults, parserResults, error, analysisInProgress>>
     ELSE /\ state' = "Threw"
          /\ ast' = AnyAst
          /\ Catch("SyntaxError")

\* readTextFile, then parseJsOrTsFile is called: new locals, and parse gives the
\* AST or throws
CallParser ==
  /\ phase = "Loop"
  /\ fileIndex <= Len(selectedFiles)
  /\ IsJsOrTs(selectedFiles[fileIndex])
  /\ path' = <<>>
  /\ pos' = 0
  /\ nodeCount' = 0
  /\ functionStack' = <<>>
  /\ discoveredNodes' = <<>>
  /\ discoveredRelationships' = <<>>
  /\ entryStack' = <<>>
  /\ UNCHANGED family
  /\ IF selectedFiles[fileIndex].text.parses
     THEN /\ state' = "NotStarted"
          /\ ast' = selectedFiles[fileIndex].text.ast
          /\ phase' = "Parsing"
          /\ UNCHANGED <<networkVars, sinkVars, viewVars, slotVars, selectedFiles, fileIndex, allParserResults,
                         parserResults, error, analysisInProgress>>
     ELSE /\ state' = "Threw"
          /\ ast' = AnyAst
          /\ Catch("SyntaxError")

\* an exception thrown inside traverse rejects the promise of parseJsOrTsFile
ParserThrew ==
  /\ phase = "Parsing"
  /\ state = "Threw"
  /\ Catch("ReferenceError")
  /\ UNCHANGED traversalVars

\* the ParserResult parseJsOrTsFile returns
ParserResult ==
  [filePath |-> FilePath, nodes |-> discoveredNodes,
   relationships |-> discoveredRelationships]

\* allParserResults.push(result)
PushResult ==
  /\ phase = "Parsing"
  /\ state = "Done"
  /\ allParserResults' = Append(allParserResults, ParserResult)
  /\ fileIndex' = fileIndex + 1
  /\ phase' = "Loop"
  /\ state' = "NotCalled"
  /\ UNCHANGED <<family, path, pos, nodeCount, functionStack, discoveredNodes,
                 discoveredRelationships, entryStack, ast, networkVars, sinkVars, viewVars, slotVars,
                 selectedFiles, parserResults, error, analysisInProgress>>

\* after the loop: setParserResults, and the lint request is sent
SetParserResults ==
  /\ phase = "Loop"
  /\ fileIndex > Len(selectedFiles)
  /\ parserResults' = allParserResults
  /\ phase' = "Linting"
  /\ UNCHANGED <<traversalVars, networkVars, sinkVars, viewVars, slotVars, selectedFiles, fileIndex,
                 allParserResults, error, analysisInProgress>>

\* the lint request comes back: ok, with an error status, or not at all
LintResponse ==
  /\ phase = "Linting"
  /\ UNCHANGED traversalVars
  /\ \E response \in {"ok", "not ok", "rejected"} :
       IF response = "ok"
       THEN /\ analysisInProgress' = TRUE
            /\ phase' = "Finished"
            /\ UNCHANGED <<networkVars, sinkVars, viewVars, slotVars, selectedFiles, fileIndex, allParserResults,
                           parserResults, error>>
       ELSE Catch(IF response = "not ok" THEN "Linting failed" ELSE "TypeError")

\* the requests that failed so far
Failed == {i \in 1..Len(outcomes) : outcomes[i] = "failed"}

\* a request to /api/ast-save is answered or rejected.  The traversal is
\* synchronous: the promise of a request settles only while no traversal runs.
\* A rejection runs the .catch callback, which writes to the console.
Settle(outcome) ==
  /\ state # "Traversing"
  /\ outcomes' = Append(outcomes, outcome)
  /\ UNCHANGED <<traversalVars, fetchThrows, posted, batchVars, sinkVars, viewVars, slotVars>>

DeliverySucceeds ==
  /\ Len(outcomes) < Len(posted)
  /\ Settle("ok")

DeliveryFails ==
  /\ Len(outcomes) < Len(posted)
  /\ Cardinality(Failed) < MaxFailures
  /\ Settle("failed")

\* the rendering logic of RepoExplorerView: which of its three views is shown
View ==
  IF analysisInProgress /\ ~analysisComplete THEN "AnalysisLoadingView"
  ELSE IF analysisComplete THEN "LintResultsView"
  ELSE "Explorer"

\* what one tick of the interval adds to the progress, and where it stops
ProgressStep == 5

ProgressFull == 100

\* mutant of NextProgress: the value is not capped
NextProgress_NoCap(prev) == prev + ProgressStep

\* the updater given to setProgress
NextProgress(prev) ==
  LET next == prev + ProgressStep
  IN  IF next > ProgressFull THEN ProgressFull ELSE next

\* the interval of the mounted AnalysisLoadingView fires.  When the progress
\* changes the component renders again and the effect on [progress, onDone]
\* runs: its cleanup clears a pending timeout, and it sets one when the
\* progress is at least 100.  A state update to the same value renders nothing.
IntervalTick ==
  /\ View = "AnalysisLoadingView"
  /\ progress' = NextProgress(progress)
  /\ doneTimer' = IF progress' = progress THEN doneTimer ELSE progress' >= ProgressFull
  /\ UNCHANGED <<traversalVars, networkVars, batchVars, sinkVars, slotVars, fsTree,
                 analysisComplete>>

\* the timeout fires: onDone(), which is setAnalysisComplete(true); the
\* AnalysisLoadingView is unmounted and its interval is cleared
DoneTimeout ==
  /\ View = "AnalysisLoadingView"
  /\ doneTimer
  /\ doneTimer' = FALSE
  /\ analysisComplete' = TRUE
  /\ UNCHANGED <<traversalVars, networkVars, batchVars, sinkVars, slotVars, fsTree, progress>>

BatchNext ==
  \/ ProceedClick
  \/ SkipFile
  \/ CallParser
  \/ ParserThrew
  \/ PushResult
  \/ SetParserResults
  \/ LintResponse
  \/ DeliverySucceeds
  \/ DeliveryFails
  \/ IntervalTick
  \/ DoneTimeout
  \/ Next

BatchSpec == BatchInit /\ [][BatchNext]_vars

\* the analysis of one selected file when the timers of the AnalysisLoadingView
\* keep firing: setInterval fires again and again while the view is mounted,
\* and a timeout that is not cleared fires
LoadingInit == BatchInit /\ Len(selectedFiles) = 1

LoadingSpec ==
  LoadingInit /\ [][BatchNext]_vars /\ WF_vars(IntervalTick) /\ WF_vars(DoneTimeout)

----------------------------------------------------------------------------
(* The Graph Sink: the Cypher statements of createAstNodeInNeo4j,            *)
(* createAstRelationshipInNeo4j and createLintIssueInNeo4j, applied to a     *)
(* graph of nodes with a label and properties and of typed relationships.    *)
(* The repository holds two versions of the first two: one that MERGEs File  *)
(* and AstEntity nodes, one that CREATEs AstNode nodes; createLintIssueInNeo4j *)
(* is the same next to both.                                                 *)

\* a property a node does not have
Absent == "<absent>"

PropertyKeys == {"path", "filePath", "name", "type", "ruleId"}

\* a node pattern (label {key: value, ...}), and the node a MERGE or CREATE
\* makes of it once it has an id
Pattern(label, pathProp, filePath, name, type, ruleId) ==
  [id |-> 0, label |-> label, path |-> pathProp, filePath |-> filePath,
   name |-> name, type |-> type, ruleId |-> ruleId]

Matches(n, pat) ==
  /\ n.label = pat.label
  /\ \A k \in PropertyKeys : pat[k] # Absent => n[k] = pat[k]

\* the graph as one value
Graph == [nodes |-> graphNodes, edges |-> graphEdges, next |-> nextId]

\* CREATE (n:label {...})
CreateNode(g, pat) ==
  [g EXCEPT !.nodes = @ \cup {[pat EXCEPT !.id = g.next]}, !.next = @ + 1]

\* MERGE (n:label {...}): creates the node only when no node matches
MergeNode(g, pat) ==
  IF \E n \in g.nodes : Matches(n, pat) THEN g ELSE CreateNode(g, pat)

\* the nodes a pattern is bound to after its MERGE: every node that matches
Matched(g, pat) == {n \in g.nodes : Matches(n, pat)}

\* MERGE (a)-[:type]->(b) for every row, a row being a pair of bound nodes
MergeEdges(g, froms, tos, type) ==
  [g EXCEPT !.edges =
     @ \cup {[from |-> a.id, to |-> b.id, type |-> type] : a \in froms, b \in tos}]

FilePattern(filePath) == Pattern("File", filePath, Absent, Absent, Absent, Absent)

AstEntityPattern(name, type) == Pattern("AstEntity", Absent, Absent, name, type, Absent)

AstNodePattern(filePath, name, type) ==
  Pattern("AstNode", Absent, filePath, name, type, Absent)

\* the label createAstRelationshipInNeo4j matches in each version
EntityLabel == IF sinkVersion = "MERGE" THEN "AstEntity" ELSE "AstNode"

NamedPattern(name) == Pattern(EntityLabel, Absent, Absent, name, Absent, Absent)

LintIssuePattern(ruleId) == Pattern("LintIssue", Absent, Absent, Absent, Absent, ruleId)

\* createAstNodeInNeo4j, the version with MERGE
MergeAstNode(g, filePath, entityName, entityType) ==
  LET g1 == MergeNode(g, FilePattern(filePath))
      g2 == MergeNode(g1, AstEntityPattern(entityName, entityType))
  IN  MergeEdges(g2, Matched(g2, FilePattern(filePath)),
                 Matched(g2, AstEntityPattern(entityName, entityType)),
                 "CONTAINS_ENTITY")

\* createAstNodeInNeo4j, the version with CREATE
CreateAstNode(g, filePath, entityName, entityType) ==
  CreateNode(g, AstNodePattern(filePath, entityName, entityType))

createAstNodeInNeo4j(g, filePath, entityName, entityType) ==
  IF sinkVersion = "MERGE"
  THEN MergeAstNode(g, filePath, entityName, entityType)
  ELSE CreateAstNode(g, filePath, entityName, entityType)

createAstRelationshipInNeo4j(g, callerName, calleeName, relationshipType) ==
  LET g1 == MergeNode(g, NamedPattern(callerName))
      g2 == MergeNode(g1, NamedPattern(calleeName))
  IN  MergeEdges(g2, Matched(g2, NamedPattern(callerName)),
                 Matched(g2, NamedPattern(calleeName)), relationshipType)

\* the place of a node among the rows of a statement, rows being in id order
Rank(n, rows) == Cardinality({m \in rows : m.id < n.id})

\* createLintIssueInNeo4j: MERGE (file:AstNode {filePath}), then for every row
\* CREATE (issue:LintIssue {...}) and CREATE (file)-[:HAS_LINT_ISSUE]->(issue)
createLintIssueInNeo4j(g, filePath, ruleId) ==
  LET g1 == MergeNode(g, AstNodePattern(filePath, Absent, Absent))
      files == Matched(g1, AstNodePattern(filePath, Absent, Absent))
  IN  [nodes |-> g1.nodes \cup
                   {[LintIssuePattern(ruleId) EXCEPT !.id = g1.next + Rank(f, files)] :
                      f \in files},
       edges |-> g1.edges \cup
                   {[from |-> f.id, to |-> g1.next + Rank(f, files),
                     type |-> "HAS_LINT_ISSUE"] : f \in files},
       next |-> g1.next + Cardinality(files)]

\* the values of the requests
FilePaths == {"a.js", "b.js"}

EntityNames == {"greet", "run"}

EntityTypes == {"FunctionDeclaration", "FunctionReference"}

RuleIds == {"no-unused-vars"}

\* the body of a request, as one shape for all three
WriteOp(kind, filePath, a, b, c) ==
  [kind |-> kind, filePath |-> filePath, a |-> a, b |-> b, c |-> c]

SinkInit ==
  /\ state = "NotCalled"
  /\ family = "scopes"
  /\ FreshLocals
  /\ ast = AnyAst
  /\ fetchThrows = FALSE
  /\ posted = <<>>
  /\ outcomes = <<>>
  /\ selectedFiles = <<>>
  /\ ExplorerMounted
  /\ NoRepository
  /\ SlotUnused
  /\ sinkVersion \in {"MERGE", "CREATE"}
  /\ SinkEmpty

\* a statement has run: the graph is g, the write is in the history
Written(op, g) ==
  /\ graphNodes' = g.nodes
  /\ graphEdges' = g.edges
  /\ nextId' = g.next
  /\ history' = Append(history, [op |-> op, nodes |-> g.nodes, edges |-> g.edges])
  /\ UNCHANGED <<traversalVars, networkVars, batchVars, sinkVersion, viewVars, slotVars>>

\* POST /api/ast-save with type "node"
SaveNode ==
  \E f \in FilePaths, n \in EntityNames, t \in EntityTypes :
    /\ Len(history) < MaxWrites
    /\ Written(WriteOp("node", f, n, t, Absent), createAstNodeInNeo4j(Graph, f, n, t))

\* POST /api/ast-save with type "relationship"
SaveRelationship ==
  \E caller \in EntityNames, callee \in EntityNames :
    /\ Len(history) < MaxWrites
    /\ Written(WriteOp("relationship", Absent, caller, callee, "CALLS"),
               createAstRelationshipInNeo4j(Graph, caller, callee, "CALLS"))

\* POST /api/lint: one message of one file
SaveLintIssue ==
  \E f \in FilePaths, r \in RuleIds :
    /\ Len(history) < MaxWrites
    /\ Written(WriteOp("lint", f, r, Absent, Absent),
               createLintIssueInNeo4j(Graph, f, r))

SinkNext ==
  \/ SaveNode
  \/ SaveRelationship
  \/ SaveLintIssue

SinkSpec == SinkInit /\ [][SinkNext]_vars

----------------------------------------------------------------------------
(* The file tree of RepoExplorerView: readFsEntries makes it, the checkboxes  *)
(* change it, handleProceedClick gathers the selected files from it and the  *)
(* AnalysisLoadingView draws the file map of it.                             *)

\* detectLanguage
detectLanguage(filePath) ==
  IF EndsWith(filePath, ".ts") \/ EndsWith(filePath, ".tsx") THEN "typescript"
  ELSE IF EndsWith(filePath, ".js") \/ EndsWith(filePath, ".jsx") THEN "javascript"
  ELSE "undefined"

\* the entries readFsEntries pushes: every one checked
FileEntry(dirPath, name) ==
  [path |-> dirPath \o "/" \o name, name |-> name, isFile |-> TRUE, isDirectory |-> FALSE,
   isChecked |-> TRUE, children |-> <<>>,
   language |-> detectLanguage(dirPath \o "/" \o name)]

DirectoryEntry(dirPath, name, children) ==
  [path |-> dirPath \o "/" \o name, name |-> name, isFile |-> FALSE, isDirectory |-> TRUE,
   isChecked |-> TRUE, children |-> children, language |-> "undefined"]

\* a repository with directories three deep, and one with an empty directory
DeepRepository ==
  << DirectoryEntry("/repo", "src",
       << FileEntry("/repo/src", "app.js"),
          DirectoryEntry("/repo/src", "lib",
            << FileEntry("/repo/src/lib", "util.ts"),
               DirectoryEntry("/repo/src/lib", "deep",
                 << FileEntry("/repo/src/lib/deep", "x.jsx") >>) >>) >>),
     FileEntry("/repo", "README.md") >>

FlatRepository ==
  << DirectoryEntry("/work", "docs", <<>>), FileEntry("/work", "main.ts") >>

Repositories == {DeepRepository, FlatRepository}

\* mutant of setCheckedForAll: the children of the children are left alone
setCheckedForAll_OneLevel(entries, checked) ==
  [i \in DOMAIN entries |-> [entries[i] EXCEPT !.isChecked = checked]]

RECURSIVE setCheckedForAll(_, _)
setCheckedForAll(entries, checked) ==
  [i \in DOMAIN entries |->
     [entries[i] EXCEPT
        !.isChecked = checked,
        !.children = IF entries[i].isDirectory THEN setCheckedForAll(@, checked) ELSE @]]

RECURSIVE toggleChecked(_, _)
toggleChecked(entries, pathToToggle) ==
  [i \in DOMAIN entries |->
     LET entry == entries[i]
     IN  IF entry.path = pathToToggle
         THEN LET newVal == ~entry.isChecked
              IN  [entry EXCEPT
                     !.isChecked = newVal,
                     !.children = IF entry.isDirectory
                                  THEN setCheckedForAll(@, newVal) ELSE @]
         ELSE IF Len(entry.children) > 0
         THEN [entry EXCEPT !.children = toggleChecked(@, pathToToggle)]
         ELSE entry]

\* the loop of gatherSelectedFiles over entries[i..]
RECURSIVE GatherFrom(_, _)
GatherFrom(entries, i) ==
  IF i > Len(entries) THEN <<>>
  ELSE LET e == entries[i]
       IN  (IF e.isChecked /\ e.isFile THEN <<e>> ELSE <<>>)
           \o (IF Len(e.children) > 0 THEN GatherFrom(e.children, 1) ELSE <<>>)
           \o GatherFrom(entries, i + 1)

gatherSelectedFiles(entries) == GatherFrom(entries, 1)

\* Array.prototype.join("\n")
RECURSIVE JoinLines(_)
JoinLines(lines) ==
  IF Len(lines) = 0 THEN ""
  ELSE IF Len(lines) = 1 THEN lines[1]
  ELSE lines[1] \o "\n" \o JoinLines(Tail(lines))

\* the box-drawing strings of generateFileMapString, written in ASCII:
\* "+-- " for the last entry of a directory, "|-- " for the others, and
\* "    " and "|   " for what the prefix grows by
BranchOf(isLast) == IF isLast THEN "+-- " ELSE "|-- "

IndentOf(isLast) == IF isLast THEN "    " ELSE "|   "

RECURSIVE generateFileMapString(_, _)
generateFileMapString(entries, prefix) ==
  LET arr == SelectSeq(entries, LAMBDA e : e.isChecked)
      LineOf(index) ==
        LET entry == arr[index]
            isLast == index = Len(arr)
            line == prefix \o BranchOf(isLast) \o entry.name
        IN  IF entry.isDirectory /\ Len(entry.children) > 0
            THEN line \o "\n"
                   \o generateFileMapString(entry.children, prefix \o IndentOf(isLast))
            ELSE line
  IN  JoinLines([index \in 1..Len(arr) |-> LineOf(index)])

\* every path of the tree
RECURSIVE PathsOf(_)
PathsOf(entries) ==
  UNION {{entries[i].path} \cup PathsOf(entries[i].children) : i \in DOMAIN entries}

\* the explorer with nothing selected; no parser has been called
ExplorerInit ==
  /\ state = "NotCalled"
  /\ family = "scopes"
  /\ FreshLocals
  /\ ast = AnyAst
  /\ fetchThrows = FALSE
  /\ posted = <<>>
  /\ outcomes = <<>>
  /\ selectedFiles = <<>>
  /\ ExplorerMounted
  /\ NoRepository
  /\ SlotUnused
  /\ sinkVersion = "MERGE"
  /\ SinkEmpty

\* handleSelectRepository: the dialog gives a directory, readFsEntries reads it
SelectRepository ==
  /\ View = "Explorer"
  /\ error' = ""
  /\ fsTree' \in Repositories
  /\ UNCHANGED <<traversalVars, networkVars, sinkVars, slotVars, phase, selectedFiles,
                 fileIndex, allParserResults, parserResults, analysisInProgress,
                 analysisComplete, progress, doneTimer>>

\* handleCheckboxChange on the checkbox of an entry
CheckboxChange ==
  /\ View = "Explorer"
  /\ \E pathToToggle \in PathsOf(fsTree) : fsTree' = toggleChecked(fsTree, pathToToggle)
  /\ UNCHANGED <<traversalVars, networkVars, batchVars, sinkVars, slotVars,
                 analysisComplete, progress, doneTimer>>

ExplorerNext ==
  \/ SelectRepository
  \/ CheckboxChange

ExplorerSpec == ExplorerInit /\ [][ExplorerNext]_vars

----------------------------------------------------------------------------
(* The parser that keeps one enclosing name: parseJsOrTsFile of              *)
(* jsAstParser.ts, with one enter and one exit handler for every node.       *)

\* the tests of the enter handler
SetsNameAsDeclaration(node) ==
  node.type \in {"FunctionDeclaration", "ClassDeclaration"} /\ node.id.kind = "Identifier"

IsFunctionValued(node) ==
  /\ node.type = "VariableDeclarator"
  /\ node.init \in {"ArrowFunctionExpression", "FunctionExpression"}

SetsNameAsDeclarator(node) == IsFunctionValued(node) /\ node.id.kind = "Identifier"

\* the test of the exit handler
ResetsName(node) ==
  node.type \in {"FunctionDeclaration", "ClassDeclaration"} \/ IsFunctionValued(node)

\* the entity type the enter handler saves a declaration with
SlotEntityType(node) ==
  IF node.type = "VariableDeclarator" THEN "FunctionExpression" ELSE node.type

\* the callee name of the enter handler
SlotCalleeName(callee) ==
  IF callee.kind = "Identifier" THEN callee.name
  ELSE IF callee.kind = "MemberExpression"
  THEN (IF callee.object.kind = "Identifier" THEN callee.object.name ELSE "unknownObj")
         \o "." \o
       (IF callee.property.kind = "Identifier" THEN callee.property.name ELSE "unknownProp")
  ELSE "anonymous_call"

\* the requests the enter handler sends for a node, the enclosing name being name
SlotRequests(node, name) ==
  IF SetsNameAsDeclaration(node) \/ SetsNameAsDeclarator(node)
  THEN <<NodeRequest(node.id.name, SlotEntityType(node))>>
  ELSE IF node.type = "CallExpression" /\ name # null /\ SlotCalleeName(node.callee) # ""
  THEN <<NodeRequest(SlotCalleeName(node.callee), "FunctionReference"),
         RelationshipRequest(name, SlotCalleeName(node.callee), "CALLS")>>
  ELSE <<>>

\* the enclosing name after the enter handler
NameAfterEnter(node, name) ==
  IF SetsNameAsDeclaration(node) \/ SetsNameAsDeclarator(node) THEN node.id.name ELSE name

\* mutant of NameAfterExit: the exit handler leaves the name
NameAfterExit_Keeps(node, name) == name

\* the enclosing name after the exit handler
NameAfterExit(node, name) == IF ResetsName(node) THEN null ELSE name

Event(kind, node, depth) == [kind |-> kind, node |-> node, depth |-> depth]

SlotInit ==
  /\ state = "NotStarted"
  /\ family \in {"slot", "nestedslot"}
  /\ FreshLocals
  /\ ast = AnyAst
  /\ fetchThrows = FALSE
  /\ posted = <<>>
  /\ outcomes = <<>>
  /\ selectedFiles = <<>>
  /\ ExplorerMounted
  /\ NoRepository
  /\ SlotUnused
  /\ sinkVersion = "MERGE"
  /\ SinkEmpty

\* traverse enters the Program node: no test of the enter handler holds
SlotProgramEnter ==
  /\ state = "NotStarted"
  /\ state' = "Traversing"
  /\ path' = <<ProgramNode>>
  /\ entryStack' = <<functionStack>>
  /\ events' = Append(events, Event("enter", ProgramNode, 1))
  /\ UNCHANGED <<family, pos, nodeCount, functionStack, discoveredNodes,
                 discoveredRelationships, ast, networkVars, batchVars, sinkVars, viewVars,
                 currentEnclosingName>>

\* the enter handler.  saveAstNode and saveAstRelationship are not awaited and
\* catch what fetch throws.
SlotEnter ==
  \E n \in Templates(family), s \in {pos, pos + 1} :
    /\ Visit(n, s)
    /\ posted' = posted \o SlotRequests(n, currentEnclosingName)
    /\ currentEnclosingName' = NameAfterEnter(n, currentEnclosingName)
    /\ events' = Append(events, Event("enter", n, Len(path')))
    /\ UNCHANGED <<state, functionStack, discoveredNodes, discoveredRelationships>>

\* the node types of the files
SlotTypes == {"Program"} \cup {n.type : n \in SlotFamily \cup NestedSlotFamily}

\* the exit handler
SlotExit ==
  /\ Leave(SlotTypes)
  /\ currentEnclosingName' = NameAfterExit(Last(path), currentEnclosingName)
  /\ events' = Append(events, Event("exit", Last(path), Len(path)))
  /\ UNCHANGED <<functionStack, discoveredNodes, discoveredRelationships>>

SlotNext ==
  \/ SlotProgramEnter
  \/ SlotEnter
  \/ SlotExit
  \/ Return

SlotSpec == SlotInit /\ [][SlotNext]_vars

----------------------------------------------------------------------------
(* Vocabulary of the properties *)

\* a step that enters a node / leaves the current node
EnterStep == Len(path') > Len(path)

ExitStep == Len(path') < Len(path)

\* the traversal has entered a node of one of the types and done nothing since
JustEntered(types) ==
  /\ state = "Traversing"
  /\ path # <<>>
  /\ Last(path).type \in types
  /\ Last(path).kids = 0

Parent == path[Len(path) - 1]

\* stack is before with exactly one entry more
PushedOne(before, stack) == Len(stack) = Len(before) + 1 /\ Front(stack) = before

\* the greatest index of a set of path indices, 0 when it is empty
Greatest(hits) == IF hits = {} THEN 0 ELSE CHOOSE i \in hits : \A j \in hits : j <= i

\* the nearest ancestor of Last(p) of each sort: its index in p, 0 when there is none
NearestScope(p) == Greatest({i \in 1..(Len(p) - 1) : p[i].type \in ScopeTypes})

NearestNamedClass(p) == Greatest({i \in 1..(Len(p) - 1) : IsNamedClass(p[i])})

NearestNamedDeclarator(p) == Greatest({i \in 1..(Len(p) - 1) : IsNamedDeclarator(p[i])})

NearestClassOrDeclarator(p) ==
  Greatest({i \in 1..(Len(p) - 1) : IsNamedClass(p[i]) \/ IsNamedDeclarator(p[i])})

IsScope(n) == n.type \in ScopeTypes

\* the name the enter handler of the scope-introducing node Last(p) pushes
PushedName(p) ==
  LET node == Last(p)
  IN  CASE node.type = "Program" -> "GLOBAL"
        [] node.type \in ClassTypes -> ClassName(node)
        [] node.type = "ClassMethod" -> ClassMethodName(p)
        [] node.type = "ClassPrivateMethod" -> ClassPrivateMethodName(p)
        [] node.type = "ObjectMethod" -> ObjectMethodName(p)
        [] node.type = "FunctionDeclaration" -> getFunctionName(p)
        [] OTHER -> FunctionValueName(p)

----------------------------------------------------------------------------
(* C1 *)

\* C1: for every node, the scope stack right after the node's exit equals, entry
\* for entry, the stack right before its enter; a scope-introducing node pushes
\* exactly one name on enter and pops exactly one on exit, any other node leaves
\* the stack alone.
C1_StackRestoredAtExit ==
  [][ /\ ExitStep => functionStack' = Last(entryStack)
      /\ ExitStep /\ IsScope(Last(path)) => PushedOne(functionStack', functionStack)
      /\ EnterStep /\ IsScope(Last(path')) => PushedOne(functionStack, functionStack')
      /\ EnterStep /\ ~IsScope(Last(path')) => functionStack' = functionStack
    ]_vars

\* a function that holds a nested scope and a call has been left again
C1_Witness ==
  /\ state = "Traversing"
  /\ Len(path) = 1
  /\ nodeCount = 3
  /\ functionStack = <<"GLOBAL">>
  /\ Len(discoveredNodes) = 3
  /\ discoveredNodes[2].type = "ClassMethod"
  /\ discoveredNodes[3].type = "FunctionReference"

----------------------------------------------------------------------------
(* C2 *)

\* C2: whenever a call expression is visited the scope stack is non-empty and its
\* bottom entry is the sentinel "GLOBAL"; the stack changes only by one push at a
\* scope entry and one pop at a scope exit; it is empty when the traversal is over.
C2_SentinelUnderEveryCall ==
  [][ /\ EnterStep /\ Last(path').type = "CallExpression" =>
           functionStack # <<>> /\ functionStack[1] = "GLOBAL"
      /\ functionStack' # functionStack =>
           \/ EnterStep /\ IsScope(Last(path')) /\ PushedOne(functionStack, functionStack')
           \/ ExitStep /\ IsScope(Last(path)) /\ PushedOne(functionStack', functionStack)
      /\ state' = "Done" => functionStack' = <<>>
    ]_vars

\* a file with a call in it has been traversed to the end
C2_Witness ==
  /\ state = "Done"
  /\ functionStack = <<>>
  /\ discoveredRelationships # <<>>

----------------------------------------------------------------------------
(* C3 *)

\* C3: every call expression visited emits exactly one FunctionReference entity
\* and exactly one CALLS relationship, also at module top level, where the caller
\* is the sentinel.
C3_OneReferenceOneCallPerCall ==
  [][ EnterStep /\ Last(path').type = "CallExpression" =>
        /\ PushedOne(discoveredNodes, discoveredNodes')
        /\ Last(discoveredNodes').type = "FunctionReference"
        /\ PushedOne(discoveredRelationships, discoveredRelationships')
        /\ Last(discoveredRelationships').relationshipType = "CALLS"
        /\ Len(path) = 1 => Last(discoveredRelationships').caller = "GLOBAL"
    ]_vars

\* a call at module top level has been recorded
C3_Witness ==
  /\ JustEntered({"CallExpression"})
  /\ Len(path) = 2
  /\ Last(discoveredNodes).type = "FunctionReference"
  /\ Last(discoveredRelationships).caller = "GLOBAL"

----------------------------------------------------------------------------
(* C4 *)

\* the call expression just entered and what was recorded for it
TheCall == Last(path)

RecordedCallee == Last(discoveredRelationships).callee

\* C4: the callee name is the identifier's name for an identifier callee;
\* "<object>.<property>" for a member expression, with unknownObj for an object
\* that is no identifier and unknownProp for a property that is no identifier;
\* anonymous_call for a callee that is neither; the FunctionReference entity
\* carries the same name.
C4_CalleeNameByShape ==
  JustEntered({"CallExpression"}) =>
    LET c == TheCall.callee
        obj == IF c.object.kind = "Identifier" THEN c.object.name ELSE "unknownObj"
        prop == IF c.property.kind = "Identifier" THEN c.property.name ELSE "unknownProp"
    IN  /\ c.kind = "Identifier" => RecordedCallee = c.name
        /\ c.kind = "MemberExpression" => RecordedCallee = obj \o "." \o prop
        /\ c.kind \notin {"Identifier", "MemberExpression"} =>
             RecordedCallee = "anonymous_call"
        /\ Last(discoveredNodes).name = RecordedCallee

\* this.#x() has been recorded as unknownObj.unknownProp
C4_Witness ==
  /\ JustEntered({"CallExpression"})
  /\ TheCall.callee.kind = "MemberExpression"
  /\ TheCall.callee.object.kind = "ThisExpression"
  /\ TheCall.callee.property.kind = "PrivateName"
  /\ RecordedCallee = "unknownObj.unknownProp"

----------------------------------------------------------------------------
(* C5 *)

\* C5: a call whose callee is a computed member access, obj[key](), resolves to
\* the callee name anonymous_call, whatever the object and the key.
C5_ComputedCalleeIsAnonymousCall ==
  JustEntered({"CallExpression"})
    /\ TheCall.callee.kind = "MemberExpression" /\ TheCall.callee.computed
  => RecordedCallee = "anonymous_call"

----------------------------------------------------------------------------
(* C6 *)

\* C6: the caller of a CALLS relationship is the name on top of the scope stack
\* when the call is entered, which is the name pushed by the innermost
\* scope-introducing node that encloses the call (the sentinel when only Program
\* does), also for a call that follows a nested scope that has already exited.
C6_CallerIsInnermostScope ==
  JustEntered({"CallExpression"}) =>
    LET i == NearestScope(path)
    IN  /\ Last(discoveredRelationships).caller = functionStack[Len(functionStack)]
        /\ i > 0
        /\ Last(discoveredRelationships).caller = PushedName(SubSeq(path, 1, i))

\* a call in function f that follows a scope nested in f
C6_Witness ==
  /\ JustEntered({"CallExpression"})
  /\ Len(path) = 3
  /\ Parent.type = "FunctionDeclaration"
  /\ Parent.kids = 2
  /\ Len(discoveredNodes) = 3
  /\ discoveredNodes[2].type \in {"FunctionExpression", "AnonymousFunction", "ClassExpression"}
  /\ Last(discoveredRelationships).caller = "f"

----------------------------------------------------------------------------
(* C7 *)

RecordedEntity == Last(discoveredNodes)

\* C7: a function or class declaration with an identifier is named by it, and a
\* function or arrow expression that is the direct initializer of a declarator
\* with an identifier target is named by that identifier, not by a placeholder;
\* function greet(){ console.log("hi"); } gives the FunctionDeclaration entity
\* greet and the relationship greet -> console.log.
C7_NamedByIdentifier ==
  /\ JustEntered({"FunctionDeclaration", "ClassDeclaration"})
       /\ Last(path).id.kind = "Identifier"
     => /\ RecordedEntity = NodeRecord(Last(path).id.name, Last(path).type)
        /\ Last(functionStack) = Last(path).id.name
  /\ JustEntered({"FunctionExpression", "ArrowFunctionExpression"})
       /\ Parent.type = "VariableDeclarator" /\ Parent.id.kind = "Identifier"
     => /\ RecordedEntity.name = Parent.id.name
        /\ Last(functionStack) = Parent.id.name
  /\ JustEntered({"CallExpression"}) /\ Parent.type = "FunctionDeclaration"
       /\ Parent.id = Ident("greet") /\ TheCall.callee.kind = "MemberExpression"
     => /\ NodeRecord("greet", "FunctionDeclaration") \in
             {discoveredNodes[i] : i \in 1..Len(discoveredNodes)}
        /\ Last(discoveredRelationships) =
             RelationshipRecord("greet", "console.log", "CALLS")

\* const v = () => ... has been entered and named v
C7_Witness ==
  /\ JustEntered({"ArrowFunctionExpression"})
  /\ Parent.type = "VariableDeclarator"
  /\ RecordedEntity = NodeRecord("v", "ArrowFunction")

----------------------------------------------------------------------------
(* C8 *)

IsMemberFunction(p) ==
  \/ Last(p).type \in {"ClassMethod", "ClassPrivateMethod", "ObjectMethod"}
  \/ Last(p).type \in {"FunctionExpression", "ArrowFunctionExpression"}
       /\ p[Len(p) - 1].type = "ObjectProperty"

IsClassMember(p) == Last(p).type \in {"ClassMethod", "ClassPrivateMethod"}

\* the member name of a member whose key is an identifier or a private name
MemberPart(p) ==
  CASE Last(p).type = "ClassPrivateMethod" -> "#" \o Last(p).key.name
    [] Last(p).type \in {"ClassMethod", "ObjectMethod"} -> Last(p).key.name
    [] OTHER -> p[Len(p) - 1].key.name

HasNamedKey(p) ==
  CASE Last(p).type \in {"ClassMethod", "ObjectMethod"} -> Last(p).key.kind = "Identifier"
    [] Last(p).type = "ClassPrivateMethod" -> TRUE
    [] OTHER -> p[Len(p) - 1].key.kind = "Identifier"

\* C8 as claimed: a class method, private method, object method or function-valued
\* object property is named <enclosingName>.<memberName>, enclosingName being the
\* name of the nearest ancestor that is a named class declaration, a named class
\* expression or a variable declarator, and anonymousClass (class members) or
\* anonymousObject (object members) only when there is no such ancestor.
C8_NearestOfClassOrDeclarator ==
  JustEntered(ScopeTypes) /\ IsMemberFunction(path) /\ HasNamedKey(path) =>
    LET i == NearestClassOrDeclarator(path)
        enclosing == IF i > 0 THEN path[i].id.name
                     ELSE IF IsClassMember(path) THEN "anonymousClass"
                     ELSE "anonymousObject"
    IN  RecordedEntity.name = enclosing \o "." \o MemberPart(path)

\* C8, amended: a class member looks only for the nearest named class declaration
\* or class expression (else anonymousClass), an object member only for the
\* nearest variable declarator with an identifier target (else anonymousObject);
\* the member name is the identifier key (after # for a private method).
C8_NearestOfOwnCategory ==
  JustEntered(ScopeTypes) /\ IsMemberFunction(path) /\ HasNamedKey(path) =>
    LET i == IF IsClassMember(path) THEN NearestNamedClass(path)
             ELSE NearestNamedDeclarator(path)
        enclosing == IF i > 0 THEN path[i].id.name
                     ELSE IF IsClassMember(path) THEN "anonymousClass"
                     ELSE "anonymousObject"
    IN  /\ RecordedEntity.name = enclosing \o "." \o MemberPart(path)
        /\ Last(functionStack) = RecordedEntity.name

\* class A { .. class B { m() {} } }: m has been named after the nearer class
C8_Witness ==
  /\ JustEntered({"ClassMethod"})
  /\ Len(path) = 4
  /\ path[2].id = Ident("A")
  /\ path[3].id = Ident("B")
  /\ RecordedEntity = NodeRecord("B.m", "ClassMethod")

----------------------------------------------------------------------------
(* C9 *)

\* the node just entered is named by the fallback placeholder rule
NamedByFallback(p) ==
  \/ Last(p).type \in ClassTypes /\ Last(p).id.kind = "null"
  \/ Last(p).type = "FunctionDeclaration" /\ Last(p).id.kind = "null"
  \/ /\ Last(p).type \in {"FunctionExpression", "ArrowFunctionExpression"}
     /\ ~(p[Len(p) - 1].type = "VariableDeclarator" /\ p[Len(p) - 1].id.kind = "Identifier")
     /\ ~(p[Len(p) - 1].type = "ObjectProperty" /\ p[Len(p) - 1].key.kind = "Identifier")

\* C9: every entity named by the fallback placeholder (anonymous_<offset>,
\* anonymousClass_<offset>) is emitted with kind AnonymousFunction, whatever its
\* syntactic category.
C9_FallbackIsAnonymousFunction ==
  JustEntered(ScopeTypes) /\ NamedByFallback(path) =>
    RecordedEntity.type = "AnonymousFunction"

----------------------------------------------------------------------------
(* C10 *)

\* the decimal rendering of an offset
IsOffset(s) ==
  /\ Len(s) > 0
  /\ \A i \in 1..Len(s) :
       SubSeq(s, i, i) \in {"0", "1", "2", "3", "4", "5", "6", "7", "8", "9"}

\* a prefix followed by an offset
IsPlaceholder(name, prefix) ==
  StartsWith(name, prefix) /\ IsOffset(SubSeq(name, Len(prefix) + 1, Len(name)))

\* an entity record whose name is a fallback placeholder: an identifier that
\* begins with anonymous_ (anonymous_helper) is none
IsFallbackRecord(r) ==
  /\ r.type # "FunctionReference"
  /\ IsPlaceholder(r.name, "anonymous_") \/ IsPlaceholder(r.name, "anonymousClass_")

\* C10: within one file, two distinct scope-introducing nodes that are both named
\* by the fallback placeholder never receive the same qualified name.
C10_PlaceholdersDistinct ==
  \A i, j \in 1..Len(discoveredNodes) :
    i < j /\ IsFallbackRecord(discoveredNodes[i]) /\ IsFallbackRecord(discoveredNodes[j])
    => discoveredNodes[i].name # discoveredNodes[j].name

\* two anonymous functions of one file, the second the first node of the body of
\* the first, have been named
C10_Witness ==
  /\ JustEntered({"FunctionExpression", "ArrowFunctionExpression"})
  /\ NamedByFallback(path)
  /\ Len(path) = 3
  /\ NamedByFallback(Front(path))
  /\ Len(discoveredNodes) = 2
  /\ IsFallbackRecord(discoveredNodes[1])
  /\ IsFallbackRecord(discoveredNodes[2])

----------------------------------------------------------------------------
(* C11 *)

\* C11: every entity record emitted for a file (declarations, methods, anonymous
\* constructs, call-site references) has a non-empty name; a construct that has
\* no name of its own gets a placeholder, never the empty string.
C11_NamesNonEmpty ==
  \A i \in 1..Len(discoveredNodes) : discoveredNodes[i].name # ""

\* a method whose key is the empty string, in a class with no name, has been
\* recorded next to a call with an unnameable callee
C11_Witness ==
  /\ JustEntered({"ClassMethod"})
  /\ Last(path).key = KeyString("")
  /\ RecordedEntity.name = "anonymousClass."
  /\ \E i \in 1..Len(discoveredNodes) : discoveredNodes[i].name = "anonymous_call"

----------------------------------------------------------------------------
(* C12 *)

\* the selected files that parse / on which parse throws
ValidFiles ==
  {i \in DOMAIN selectedFiles : IsJsOrTs(selectedFiles[i]) /\ selectedFiles[i].text.parses}

InvalidFiles ==
  {i \in DOMAIN selectedFiles : IsJsOrTs(selectedFiles[i]) /\ ~selectedFiles[i].text.parses}

HandlerOver == phase \in {"Finished", "Caught"}

ReportedPaths == {parserResults[i].filePath : i \in 1..Len(parserResults)}

\* C12: when a batch holds one file that does not parse, every other file of the
\* batch is still parsed and its result is kept and reported, wherever the
\* invalid file stands in the batch.
C12_OtherFilesKeptNextToInvalidOne ==
  HandlerOver /\ ~fetchThrows /\ Cardinality(InvalidFiles) = 1 =>
    \A i \in ValidFiles : selectedFiles[i].path \in ReportedPaths

----------------------------------------------------------------------------
(* C13 *)

RecordCount(result) == Len(result.nodes) + Len(result.relationships)

RECURSIVE TotalRecords(_)
TotalRecords(results) ==
  IF results = <<>> THEN 0
  ELSE RecordCount(Last(results)) + TotalRecords(Front(results))

\* the records of the call of parseJsOrTsFile that is running
RecordsOfRunningCall ==
  IF phase = "Parsing" THEN Len(discoveredNodes) + Len(discoveredRelationships) ELSE 0

\* the text of the file a result is for
TextOf(result) ==
  selectedFiles[CHOOSE k \in DOMAIN selectedFiles :
                  selectedFiles[k].path = result.filePath].text

\* C13: a failed delivery of one record stops nothing: every record that is put
\* in the result lists has been sent to the Graph Sink, whatever failed before,
\* and the nodes and relationships returned for a file are those returned for
\* the same text when no delivery fails.
C13_EmissionGoesOnAfterFailure ==
  ~fetchThrows =>
    /\ Len(posted) = TotalRecords(allParserResults) + RecordsOfRunningCall
    /\ \A i, j \in 1..Len(allParserResults) :
         TextOf(allParserResults[i]) = TextOf(allParserResults[j]) =>
           /\ allParserResults[i].nodes = allParserResults[j].nodes
           /\ allParserResults[i].relationships = allParserResults[j].relationships

\* the first record of the first file failed before the second file, which has
\* the same text, was parsed: both results are there, all their records sent
C13_Witness ==
  /\ Len(allParserResults) = 2
  /\ TextOf(allParserResults[1]) = TextOf(allParserResults[2])
  /\ allParserResults[1].relationships # <<>>
  /\ Len(outcomes) = 1
  /\ outcomes[1] = "failed"
  /\ Len(posted) = 2 * RecordCount(allParserResults[1])

----------------------------------------------------------------------------
(* C14 *)

\* the requests of posted that were sent for the k-th result
RequestsOf(k) ==
  (TotalRecords(SubSeq(allParserResults, 1, k - 1)) + 1) ..
    TotalRecords(SubSeq(allParserResults, 1, k))

\* what the caller of the batch has of a file: the result without the path
Reported(k) ==
  [nodes |-> parserResults[k].nodes, relationships |-> parserResults[k].relationships]

\* C14: a failed write of a record is surfaced to the caller of the batch: what
\* is reported for a file of which a record failed to persist differs from what
\* is reported for the same text when every record was persisted, or the error
\* of the view is set.
C14_FailedWriteIsSurfaced ==
  phase = "Finished" /\ Len(outcomes) = Len(posted) =>
    \A i, j \in 1..Len(parserResults) :
      /\ TextOf(parserResults[i]) = TextOf(parserResults[j])
      /\ RequestsOf(i) \cap Failed # {}
      /\ RequestsOf(j) \cap Failed = {}
      => Reported(i) # Reported(j) \/ error # ""

----------------------------------------------------------------------------
(* C15 *)

\* the k-th write repeats the write before it
IsRepeat(k) == k > 1 /\ history[k].op = history[k - 1].op

\* C15: writing the identical entity record or the identical relationship record
\* twice leaves what one write leaves: the graph after the second of two
\* identical writes is the graph after the first.
C15_SecondIdenticalWriteChangesNothing ==
  \A k \in 1..Len(history) :
    IsRepeat(k) /\ history[k].op.kind \in {"node", "relationship"} =>
      /\ history[k].nodes = history[k - 1].nodes
      /\ history[k].edges = history[k - 1].edges

----------------------------------------------------------------------------
(* C16 *)

\* the graph before the k-th write
NodesBefore(k) == IF k = 1 THEN {} ELSE history[k - 1].nodes

\* the File nodes the entity writes made for a path
FileNodes(nodes, f) == {n \in nodes : n.label = "File" /\ n.path = f}

\* the nodes the k-th write made
NewNodes(k) == history[k].nodes \ NodesBefore(k)

\* C16: a lint issue stored for a path that has a File node from the entity
\* writes is linked to that File node, and storing it makes no other node that
\* stands for the file.
C16_IssueLinkedToFileNode ==
  \A k \in 1..Len(history) :
    LET f == history[k].op.filePath
    IN  history[k].op.kind = "lint" /\ FileNodes(NodesBefore(k), f) # {} =>
          \A n \in NewNodes(k) :
            /\ n.label = "LintIssue"
            /\ \E file \in FileNodes(NodesBefore(k), f) :
                 [from |-> file.id, to |-> n.id, type |-> "HAS_LINT_ISSUE"]
                   \in history[k].edges

----------------------------------------------------------------------------
(* C17 *)

\* the NodePath chain of the k-th node of a fixed AST: Program, then for every
\* depth the last node of that depth entered up to the k-th
PathTo(nodes, k) ==
  <<ProgramNode>> \o
    [d \in 1..nodes[k].depth |->
       LET j == Greatest({i \in 1..k : nodes[i].depth = d})
       IN  [nodes[j].node EXCEPT !.start = nodes[j].start]]

\* the entity record of a node, read off the text alone
EntityOf(p) ==
  CASE Last(p).type = "CallExpression" ->
         NodeRecord(CalleeName(Last(p).callee), "FunctionReference")
    [] Last(p).type = "FunctionExpression" ->
         NodeRecord(PushedName(p), FunctionValueType(p, "FunctionExpression"))
    [] Last(p).type = "ArrowFunctionExpression" ->
         NodeRecord(PushedName(p), FunctionValueType(p, "ArrowFunction"))
    [] OTHER -> NodeRecord(PushedName(p), Last(p).type)

\* the relationship record of a call, read off the text alone
CallOf(p) ==
  RelationshipRecord(PushedName(SubSeq(p, 1, NearestScope(p))),
                     CalleeName(Last(p).callee), "CALLS")

RECURSIVE NodesOfText(_, _)
\* the entity records of the first k nodes of a fixed AST
NodesOfText(nodes, k) ==
  IF k = 0 THEN <<>>
  ELSE NodesOfText(nodes, k - 1) \o
         (IF nodes[k].node.type \in UnhandledTypes THEN <<>>
          ELSE <<EntityOf(PathTo(nodes, k))>>)

RECURSIVE RelationshipsOfText(_, _)
RelationshipsOfText(nodes, k) ==
  IF k = 0 THEN <<>>
  ELSE RelationshipsOfText(nodes, k - 1) \o
         (IF nodes[k].node.type = "CallExpression" THEN <<CallOf(PathTo(nodes, k))>>
          ELSE <<>>)

\* C17: the records of a file depend on its text and path only: every call of
\* parseJsOrTsFile starts with an empty stack and empty lists of its own, and
\* the records returned for a file are those its text gives, whatever files
\* were traversed before it in the batch.
C17_RecordsDependOnTextOnly ==
  /\ state = "NotStarted" =>
       functionStack = <<>> /\ discoveredNodes = <<>> /\ discoveredRelationships = <<>>
  /\ \A i \in 1..Len(allParserResults) :
       LET nodes == TextOf(allParserResults[i]).ast.nodes
       IN  /\ allParserResults[i].nodes = NodesOfText(nodes, Len(nodes))
           /\ allParserResults[i].relationships = RelationshipsOfText(nodes, Len(nodes))

\* the second file of a batch was parsed after a file with another text that
\* left records and a call
C17_Witness ==
  /\ Len(allParserResults) = 2
  /\ TextOf(allParserResults[1]) # TextOf(allParserResults[2])
  /\ allParserResults[1].relationships # <<>>
  /\ allParserResults[2].relationships # <<>>

----------------------------------------------------------------------------
(* C18 *)

\* an exception has left the enter handler of the node on top of path
ThrewInHandler == state = "Threw" /\ path # <<>>

\* C18: the pop that matches a push happens on every exit path: when a handler
\* throws after it pushed the name, the stack is again what it was before the
\* enter of the node, no entry is left behind.
C18_StackRestoredWhenHandlerThrows ==
  ThrewInHandler => functionStack = Last(entryStack)

----------------------------------------------------------------------------
(* C19 *)

\* the k-th record of the stream is the FunctionReference entity of callee name
IsReferenceTo(k, name) ==
  /\ k >= 1
  /\ posted[k].type = "node"
  /\ posted[k].entityType = "FunctionReference"
  /\ posted[k].entityName = name

\* an entity record named name is in the stream before the k-th record
EmittedBefore(k, name) ==
  \E j \in 1..(k - 1) : posted[j].type = "node" /\ posted[j].entityName = name

\* C19: in the stream of records of one file every CALLS relationship record
\* comes directly after the FunctionReference entity record of its callee, and
\* its caller is the sentinel or the name of an entity record that is earlier in
\* the stream.
C19_CallAfterItsReference ==
  \A k \in 1..Len(posted) :
    posted[k].type = "relationship" =>
      /\ posted[k].relationshipType = "CALLS"
      /\ IsReferenceTo(k - 1, posted[k].calleeName)
      /\ posted[k].callerName = "GLOBAL" \/ EmittedBefore(k, posted[k].callerName)

\* a call inside function f that follows a call at module level
C19_Witness ==
  /\ JustEntered({"CallExpression"})
  /\ Parent.type = "FunctionDeclaration"
  /\ Len(posted) = 5
  /\ posted[2].type = "relationship"
  /\ posted[2].callerName = "GLOBAL"
  /\ posted[3].type = "node"
  /\ posted[3].entityType = "FunctionDeclaration"
  /\ posted[5].type = "relationship"
  /\ posted[5].callerName = posted[3].entityName

----------------------------------------------------------------------------
(* C20 *)

\* the node on top of p is a function expression that is called where it stands
IsInvokedFunction(p) ==
  /\ Len(p) > 2
  /\ Last(p).type = "FunctionExpression"
  /\ p[Len(p) - 1].type = "CallExpression"
  /\ p[Len(p) - 1].callee.kind = "FunctionExpression"

\* C20: an immediately-invoked anonymous function expression is emitted as the
\* AnonymousFunction entity anonymous_<its start offset>; every call directly in
\* its body has that placeholder as caller; the invoking call is recorded before
\* the name of the function is pushed, with the enclosing context as caller and
\* anonymous_call as callee.
C20_InvokedFunctionExpression ==
  /\ JustEntered({"FunctionExpression"}) /\ IsInvokedFunction(path) =>
       LET name == "anonymous_" \o ToString(Last(path).start)
           n == Len(posted)
       IN  /\ RecordedEntity = NodeRecord(name, "AnonymousFunction")
           /\ Last(functionStack) = name
           /\ Parent.kids = 1 =>
                /\ n >= 3
                /\ posted[n].type = "node" /\ posted[n].entityName = name
                /\ posted[n - 1] =
                     RelationshipRequest(Last(Last(entryStack)), "anonymous_call", "CALLS")
                /\ posted[n - 2] = NodeRequest("anonymous_call", "FunctionReference")
  /\ JustEntered({"CallExpression"}) /\ IsInvokedFunction(Front(path)) =>
       Last(discoveredRelationships).caller = "anonymous_" \o ToString(Parent.start)

\* function f() { (function () { doThing(); })(); }: doThing has been recorded
C20_Witness ==
  /\ JustEntered({"CallExpression"})
  /\ IsInvokedFunction(Front(path))
  /\ Len(path) = 5
  /\ path[2].type = "FunctionDeclaration"
  /\ discoveredNodes[3] = NodeRecord("anonymous_" \o ToString(Parent.start),
                                     "AnonymousFunction")
  /\ discoveredRelationships[1] = RelationshipRecord("f", "anonymous_call", "CALLS")
  /\ Last(discoveredRelationships).callee = "doThing"
  /\ Last(discoveredRelationships).caller = discoveredNodes[3].name

----------------------------------------------------------------------------
(* C29 *)

\* the nearest enclosing class of the member on top of p, named or not
NearestClass(p) == Greatest({i \in 1..(Len(p) - 1) : p[i].type \in ClassTypes})

\* C29: the part before the dot of the name of a class method or private class
\* method is the name under which its nearest enclosing class was emitted and
\* pushed, also for a class with no identifier and for a class inside a class.
C29_MethodPrefixIsEmittedClassName ==
  JustEntered(MemberTypes) =>
    LET i == NearestClass(path)
    IN  /\ i > 0
        /\ StartsWith(RecordedEntity.name, PushedName(SubSeq(path, 1, i)) \o ".")
        /\ StartsWith(RecordedEntity.name,
                      functionStack[Len(functionStack) - 1] \o ".")

----------------------------------------------------------------------------
(* C30 *)

\* the function value on top of p takes its name from a declarator or a property
NamedByOwner(p) ==
  /\ Last(p).type \in {"FunctionExpression", "ArrowFunctionExpression"}
  /\ \/ IsNamedDeclarator(p[Len(p) - 1])
     \/ IsPropertyValue(p)

\* C30: a function or arrow expression that takes its name from a variable
\* declarator or an object property is never emitted with kind
\* AnonymousFunction, whatever the identifier is.
C30_NamedExpressionNotAnonymous ==
  JustEntered({"FunctionExpression", "ArrowFunctionExpression"}) /\ NamedByOwner(path)
  => RecordedEntity.type # "AnonymousFunction"

----------------------------------------------------------------------------
(* C23 *)

\* the relationships the k-th write made
EdgesBefore(k) == IF k = 1 THEN {} ELSE history[k - 1].edges

NewEdges(k) == history[k].edges \ EdgesBefore(k)

\* C23: storing one lint message next to the entity nodes made with CREATE
\* makes exactly one LintIssue node and exactly one HAS_LINT_ISSUE
\* relationship, however many entity nodes the file path already has.
C23_OneIssuePerLintMessage ==
  \A k \in 1..Len(history) :
    sinkVersion = "CREATE" /\ history[k].op.kind = "lint" =>
      /\ Cardinality({n \in NewNodes(k) : n.label = "LintIssue"}) = 1
      /\ Cardinality({e \in NewEdges(k) : e.type = "HAS_LINT_ISSUE"}) = 1

----------------------------------------------------------------------------
(* C26 *)

\* the graph after the first k writes; ids are given out in order from 1
GraphAfter(k) ==
  IF k = 0
  THEN [nodes |-> {}, edges |-> {}, next |-> 1]
  ELSE [nodes |-> history[k].nodes, edges |-> history[k].edges,
        next |-> Cardinality(history[k].nodes) + 1]

\* the statement a request runs
Apply(op, g) ==
  CASE op.kind = "node" -> createAstNodeInNeo4j(g, op.filePath, op.a, op.b)
    [] op.kind = "relationship" -> createAstRelationshipInNeo4j(g, op.a, op.b, op.c)
    [] OTHER -> createLintIssueInNeo4j(g, op.filePath, op.a)

\* a node without its id
Unnumbered(n) == [n EXCEPT !.id = 0]

NodeOf(g, id) == CHOOSE n \in g.nodes : n.id = id

\* what a graph holds, whatever ids its nodes got
Content(g) ==
  [size |-> Cardinality(g.nodes),
   nodes |-> {Unnumbered(n) : n \in g.nodes},
   links |-> Cardinality(g.edges),
   edges |-> {[from |-> Unnumbered(NodeOf(g, e.from)), to |-> Unnumbered(NodeOf(g, e.to)),
               type |-> e.type] : e \in g.edges}]

\* the k-th write is the entity record of the caller or callee of the
\* relationship record written just before it
EntityAfterItsRelationship(k) ==
  /\ k > 1
  /\ history[k - 1].op.kind = "relationship"
  /\ history[k].op.kind = "node"
  /\ history[k].op.a \in {history[k - 1].op.a, history[k - 1].op.b}

\* C26: with the MERGE statements, a relationship record applied before the
\* entity record of its caller or callee leaves the same nodes and
\* relationships as the two records applied in the other order.
C26_OrderOfRecordsDoesNotMatter ==
  \A k \in 1..Len(history) :
    sinkVersion = "MERGE" /\ EntityAfterItsRelationship(k) =>
      Content(GraphAfter(k))
        = Content(Apply(history[k - 1].op, Apply(history[k].op, GraphAfter(k - 2))))

----------------------------------------------------------------------------
(* C27 *)

\* no earlier write was the same record
FirstOfItsKind(k) == \A j \in 1..(k - 1) : history[j].op # history[k].op

\* C27: with the MERGE statements, one relationship record makes at most one
\* relationship, and exactly one when the record was not written before, also
\* when several entity nodes have the caller's or the callee's name.
C27_OneEdgePerRelationshipRecord ==
  \A k \in 1..Len(history) :
    sinkVersion = "MERGE" /\ history[k].op.kind = "relationship" =>
      /\ Cardinality(NewEdges(k)) <= 1
      /\ FirstOfItsKind(k) => Cardinality(NewEdges(k)) = 1

----------------------------------------------------------------------------
(* C24 *)

\* the selected files that are JavaScript or TypeScript
SelectedJsOrTs == {i \in 1..Len(selectedFiles) : IsJsOrTs(selectedFiles[i])}

\* every selected JavaScript or TypeScript file has a result on show
AllParsed ==
  /\ Len(parserResults) = Cardinality(SelectedJsOrTs)
  /\ \A i \in SelectedJsOrTs : selectedFiles[i].path \in ReportedPaths

\* the order of the views
ViewRank(v) ==
  CASE v = "Explorer" -> 0
    [] v = "AnalysisLoadingView" -> 1
    [] v = "LintResultsView" -> 2

\* C24: the analysis is shown only when handleProceedClick has come to its end,
\* every selected JavaScript or TypeScript file parsed and the lint request
\* answered ok; when the handler has failed the error is set and the explorer
\* is shown; and the view only moves forward, explorer, AnalysisLoadingView,
\* LintResultsView.
C24_ViewEnteredAfterSuccessAndOnlyForward ==
  /\ [](View # "Explorer" => phase = "Finished" /\ AllParsed)
  /\ [](phase = "Caught" => error # "" /\ View = "Explorer")
  /\ [][ViewRank(View') >= ViewRank(View)]_vars

\* the results are shown for a batch with a parsed file and a skipped one
C24_Witness ==
  /\ View = "LintResultsView"
  /\ Cardinality(SelectedJsOrTs) >= 1
  /\ Cardinality(SelectedJsOrTs) < Len(selectedFiles)

----------------------------------------------------------------------------
(* C25 *)

\* onDone is called in this step
OnDoneCalled == analysisComplete' /\ ~analysisComplete

\* C25: the progress of AnalysisLoadingView starts at 0, a tick of the interval
\* adds 5 to it until it is 100, it never decreases and never exceeds 100;
\* onDone is called only when the progress has reached 100, and with timers
\* that keep firing it is called.
C25_ProgressRisesToFullThenOnDone ==
  /\ [](View = "Explorer" => progress = 0)
  /\ [](progress \in 0..ProgressFull)
  /\ [][progress' >= progress]_vars
  /\ [][IntervalTick =>
          progress' = IF progress < ProgressFull THEN progress + ProgressStep ELSE progress]_vars
  /\ [][OnDoneCalled => progress = ProgressFull]_vars
  /\ (View = "AnalysisLoadingView" ~> analysisComplete)

\* onDone has been called, after the progress bar was full
C25_Witness == analysisComplete /\ progress = ProgressFull

----------------------------------------------------------------------------
(* C22 *)

\* every entry of a tree, at any depth, without its children
RECURSIVE EntriesOf(_)
EntriesOf(entries) ==
  UNION {{[entries[i] EXCEPT !.children = <<>>]} \cup EntriesOf(entries[i].children) :
           i \in DOMAIN entries}

TheEntry(pathOfEntry) == CHOOSE e \in EntriesOf(fsTree) : e.path = pathOfEntry

\* e lies below the directory at dirPath, at any depth
IsBelow(e, dirPath) == StartsWith(e.path, dirPath \o "/")

\* what the claim says of entry e when the entry t is toggled
AfterToggle(e, t) ==
  IF e.path = t.path THEN [e EXCEPT !.isChecked = ~t.isChecked]
  ELSE IF t.isDirectory /\ IsBelow(e, t.path) THEN [e EXCEPT !.isChecked = ~t.isChecked]
  ELSE e

\* C22: toggleChecked on the path of a directory flips the directory and gives
\* every entry below it, at any depth, the directory's new value; on the path
\* of a file it flips that file; every other entry is as it was.
C22_ToggleSetsWholeSubtree ==
  \A pathToToggle \in PathsOf(fsTree) :
    EntriesOf(toggleChecked(fsTree, pathToToggle))
      = {AfterToggle(e, TheEntry(pathToToggle)) : e \in EntriesOf(fsTree)}

\* a tree, changed by the checkboxes, with a directory that has entries two
\* levels down whose checkboxes differ from one another
C22_Witness ==
  \E d \in EntriesOf(fsTree), e1 \in EntriesOf(fsTree), e2 \in EntriesOf(fsTree) :
    /\ d.isDirectory
    /\ IsBelow(e1, d.path) /\ IsBelow(e2, d.path)
    /\ \E mid \in EntriesOf(fsTree) : IsBelow(mid, d.path) /\ IsBelow(e1, mid.path)
    /\ e1.isChecked # e2.isChecked
    /\ e1.isChecked = d.isChecked

----------------------------------------------------------------------------
(* C28 *)

\* the lines of a text
RECURSIVE LinesOf(_)
LinesOf(text) ==
  IF \E i \in 1..Len(text) : SubSeq(text, i, i) = "\n"
  THEN LET i == CHOOSE i \in 1..Len(text) :
                  /\ SubSeq(text, i, i) = "\n"
                  /\ \A j \in 1..(i - 1) : SubSeq(text, j, j) # "\n"
       IN  {SubSeq(text, 1, i - 1)} \cup LinesOf(SubSeq(text, i + 1, Len(text)))
  ELSE IF text = "" THEN {} ELSE {text}

\* the files of the tree
FilesOf(entries) == {e \in EntriesOf(entries) : e.isFile}

\* the files the preview of the AnalysisLoadingView lists: a line ends with
\* the branch and the name of the file
PreviewFiles ==
  {e.path : e \in {f \in FilesOf(fsTree) :
                     \E line \in LinesOf(generateFileMapString(fsTree, "")) :
                       EndsWith(line, "-- " \o f.name)}}

\* the files handleProceedClick analyses
GatheredFiles ==
  LET files == gatherSelectedFiles(fsTree)
  IN  {files[i].path : i \in 1..Len(files)}

\* C28: whatever checkboxes were changed, the files the file map lists are the
\* files gathered for the analysis.
C28_PreviewListsTheAnalysedFiles == PreviewFiles = GatheredFiles

----------------------------------------------------------------------------
(* C21 *)

\* the declarations the claim names
IsDeclarationOfClaim(node) ==
  \/ node.type \in {"FunctionDeclaration", "ClassDeclaration"}
  \/ /\ node.type = "VariableDeclarator"
     /\ node.init \in {"ArrowFunctionExpression", "FunctionExpression"}

\* the node at the end of p is at module top level: in no function and no class
AtTopLevel(p) ==
  \A i \in 1..(Len(p) - 1) :
    p[i].type \notin FunctionLike \cup ClassTypes /\ ~IsDeclarationOfClaim(p[i])

\* the event that entered the node p[i] of the path: the last enter at its depth
EnterOf(ev, i) ==
  Greatest({k \in 1..Len(ev) : ev[k].kind = "enter" /\ ev[k].depth = i})

\* the node at the end of p has a named function declaration as its innermost
\* enclosing declaration, and a declaration nested in that function was
\* entered and exited before it
FollowsNestedDeclaration(p, ev) ==
  \E i \in 1..(Len(p) - 1) :
    /\ p[i].type = "FunctionDeclaration" /\ p[i].id.kind = "Identifier"
    /\ \A j \in (i + 1)..(Len(p) - 1) : ~IsDeclarationOfClaim(p[j])
    /\ \E k \in (EnterOf(ev, i) + 1)..Len(ev) :
         ev[k].kind = "exit" /\ IsDeclarationOfClaim(ev[k].node)

\* C21: in the parser that keeps one enclosing name, the exit of a function
\* declaration, a class declaration or a function-valued variable declarator
\* sets the name to null; and the enter of a call that is at module top level,
\* or that follows a declaration nested in its enclosing function, sends no
\* request: no FunctionReference entity, no CALLS relationship.
C21_SingleNameLostAfterNestedDeclaration ==
  /\ [][ExitStep /\ IsDeclarationOfClaim(Last(path)) => currentEnclosingName' = null]_vars
  /\ [][/\ EnterStep
        /\ Last(path').type = "CallExpression"
        /\ AtTopLevel(path') \/ FollowsNestedDeclaration(path', events)
        => posted' = posted]_vars

\* a call has just been entered after a nested declaration, inside a function
\* that was saved, and nothing was sent for it
C21_Witness ==
  /\ path # <<>>
  /\ Last(path).type = "CallExpression"
  /\ Last(events).kind = "enter"
  /\ FollowsNestedDeclaration(path, Front(events))
  /\ posted # <<>>
  /\ \A i \in 1..Len(posted) : posted[i].type = "node"

====
